---- MODULE Spec2Model ----
(***************************************************************************)
(* A model of the crossword layout engine of src/src/lib/crossword.js:     *)
(* createPuzzle (validation, random subset pick, grid sizing), the attempt *)
(* loop of buildCrossword, the backtracking search of attemptLayout /      *)
(* backtrackPlace with canPlace, applyPlacement and revertPlacement, and   *)
(* the trimming, numbering and scoring of a full layout (Spec); and        *)
(* normalizeEntries applied to a raw value (SpecNormalize).                *)
(* SpecScenarioA is createPuzzle on the five words of scenario A in every  *)
(* order; SpecWorker is the message handler of                             *)
(* src/src/workers/crosswordWorker.js around createPuzzle.                 *)
(* SpecBacktrack is createPuzzle on a list whose search backtracks;        *)
(* SpecTerminates is Spec run as one synchronous call; SpecGridSize        *)
(* applies determineGridSize to subsets of many sizes; SpecApp is the App  *)
(* component of src/src/App.jsx with its worker: the handlers of Generate, *)
(* Reset and file upload and the delivery of the worker's messages.        *)
(* The variable outcomes is a history variable: the code keeps no record   *)
(* of what its attempts returned.                                          *)
(*                                                                         *)
(* Encoding.  Arrays are sequences; the source's 0-based row, col, index   *)
(* values are kept and 1 is added where a sequence is indexed.  A word is  *)
(* the sequence of its letters.  The JavaScript null of a grid cell is the *)
(* string null; the null of a number is noNumber; a nullable layout is a   *)
(* sequence of length 0 or 1.  A score is the exact fraction num/den.      *)
(***************************************************************************)
EXTENDS Integers, Sequences, FiniteSets, TLC

\* ----------------------------------------------------------------- constants
MIN_GRID_SIZE == 10
MAX_GRID_SIZE == 25
MIN_WORDS == 5
MAX_WORDS == 25
maxAttempts == 80

null == "null"
noNumber == 0

\* ----------------------------------------------------------------- bounds
\* Math.random() is drawn from {0, 1/RandomLevels, ..., (RandomLevels-1)/RandomLevels}.
RandomLevels == 2
\* requestedCount is drawn from MIN_WORDS-1 .. MaxRequested, and MAX_WORDS + 1.
MaxRequested == 5
\* A shuffle of more than MaxDrawn + 1 entries draws the same value at every call of
\* Math.random(); a shorter one draws every combination of values.
MaxDrawn == 5

\* ----------------------------------------------------------------- inputs
Entry(w, c, i) == [word |-> w, clue |-> c, originalIndex |-> i]

\* Scenario A of the specification.
ListA ==
  << Entry(<<"C","A","T">>, "Feline", 0),
     Entry(<<"T","A","R">>, "Sticky black", 1),
     Entry(<<"A","R","T">>, "Museum piece", 2),
     Entry(<<"R","A","T">>, "Rodent", 3),
     Entry(<<"T","A","B">>, "Small flap", 4) >>

\* CABS contains CAB: one may be laid over the other.
ListB ==
  << Entry(<<"A","R","C">>, "Part of a circle", 0),
     Entry(<<"B","R","A","T">>, "Spoiled child", 1),
     Entry(<<"C","A","B","S">>, "Taxis", 2),
     Entry(<<"C","A","B">>, "Taxi", 3),
     Entry(<<"B","A","T">>, "Flying mammal", 4) >>

\* Six short entries over four letters, which pack densely.
ListDense ==
  << Entry(<<"D","D","C">>, "d0", 0),
     Entry(<<"B","B","A">>, "d1", 1),
     Entry(<<"D","C">>, "d2", 2),
     Entry(<<"D","B">>, "d3", 3),
     Entry(<<"D","A">>, "d4", 4),
     Entry(<<"C","B">>, "d5", 5) >>

\* An eleven-letter word, longer than the side of the working grid.
ListLong ==
  << Entry(<<"P","L","A","C","E","H","O","L","D","E","R">>, "Stand-in", 0),
     Entry(<<"P","A">>, "Father", 1),
     Entry(<<"L","O">>, "Behold", 2),
     Entry(<<"H","E">>, "That man", 3),
     Entry(<<"D","O">>, "Perform", 4) >>

\* Words without any common letter.
ListDisjoint ==
  << Entry(<<"A","B">>, "c0", 0),
     Entry(<<"C","D">>, "c1", 1),
     Entry(<<"E","F">>, "c2", 2),
     Entry(<<"G","H">>, "c3", 3),
     Entry(<<"I","J">>, "c4", 4) >>

\* Fewer entries than MIN_WORDS.
ListShort ==
  << Entry(<<"C","A","T">>, "Feline", 0),
     Entry(<<"T","A","R">>, "Sticky black", 1),
     Entry(<<"A","R","T">>, "Museum piece", 2),
     Entry(<<"R","A","T">>, "Rodent", 3) >>

\* One entry more than MAX_WORDS; no two of the words share a letter.
Alphabet ==
  << "A", "B", "C", "D", "E", "F", "G", "H", "I", "J", "K", "L", "M",
     "N", "O", "P", "Q", "R", "S", "T", "U", "V", "W", "X", "Y", "Z" >>

ListOverMax ==
  [i \in 1..(MAX_WORDS + 1) |-> Entry(<< Alphabet[i], Alphabet[i] >>, "Double letter", i - 1)]

\* Fewer entries than the least requestedCount drawn.
ListFew == SubSeq(ListShort, 1, 3)

InputLists ==
  { ListA, ListB, ListDense, ListLong, ListDisjoint, ListShort, ListFew, ListOverMax,
    <<>> }

\* ----------------------------------------------------------------- state
VARIABLES
  pc,             \* position in createPuzzle / buildCrossword / backtrackPlace
  raw,            \* normalizeEntries' raw argument
  entries,        \* createPuzzle's entries argument
  requestedCount, \* createPuzzle's requestedCount argument
  words,          \* the subset picked by pickRandomEntries
  gridSize,       \* determineGridSize(words)
  attempt,        \* buildCrossword's loop variable
  bestLayout,     \* buildCrossword's bestLayout (<<>> is null)
  bestScore,      \* buildCrossword's bestScore
  successCount,   \* buildCrossword's successCount
  grid,           \* attemptLayout's grid
  usage,          \* attemptLayout's usage map
  placements,     \* attemptLayout's placements list
  used,           \* attemptLayout's used set
  overlapMatrix,  \* attemptLayout's overlapMatrix
  overlapTotals,  \* attemptLayout's overlapTotals
  undo,           \* per committed placement: its filledCells and usageUpdates
  frames,         \* per active backtrackPlace call: its options and its position
  reports,        \* number of calls of the progress callback so far
  outcomes,       \* what the attempts so far returned: <<>> (null) or << layout >>
  result,         \* the value createPuzzle returned (<<>> before it returns)
  error,          \* the error createPuzzle raised ("" if none)
  terminal,       \* the success and error messages the worker has posted, in order
  app,            \* the state of the App component of src/src/App.jsx
  channel         \* the App's worker and the messages between the two

vars == << pc, raw, entries, requestedCount, words, gridSize, attempt, bestLayout,
           bestScore, successCount, grid, usage, placements, used, overlapMatrix,
           overlapTotals, undo, frames, reports, outcomes, result, error, terminal, app,
           channel >>

\* ----------------------------------------------------------------- the App
\* The App component once it is mounted: no entries, no puzzle, and a worker
\* created by the mount effect.  reading holds the files whose text is awaited;
\* generated and chosen count the clicks on Generate and the files chosen.
initialWordCount == 10

appAtMount ==
  [entries |-> <<>>, wordCount |-> initialWordCount, puzzle |-> <<>>,
   isGenerating |-> FALSE, generationSteps |-> <<>>, statusError |-> FALSE,
   reading |-> <<>>, mounted |-> TRUE, generated |-> 0, chosen |-> 0]

\* The worker has no request waiting, handles none, and has posted nothing that is
\* not yet delivered.
noMessages == [requests |-> <<>>, handling |-> <<>>, progress |-> 0, messages |-> <<>>]

\* ----------------------------------------------------------------- helpers
RECURSIVE SumSeq(_)
SumSeq(s) == IF s = <<>> THEN 0 ELSE Head(s) + SumSeq(Tail(s))

RECURSIVE Flatten(_)
Flatten(ss) == IF ss = <<>> THEN <<>> ELSE Head(ss) \o Flatten(Tail(ss))

Max(a, b) == IF a >= b THEN a ELSE b
Min(a, b) == IF a <= b THEN a ELSE b

LeastOf(S) == CHOOSE k \in S : \A m \in S : k <= m
GreatestOf(S) == CHOOSE k \in S : \A m \in S : k >= m

\* Math.ceil(Math.sqrt(n)) for a natural number n.
CeilSqrt(n) == CHOOSE s \in 0..n : s * s >= n /\ \A t \in 0..(s - 1) : t * t < n

\* ----------------------------------------------------------------- subset pick
\* Math.floor(Math.random() * (i + 1)) when Math.random() returns k / RandomLevels.
RandomIndex(k, i) == (k * (i + 1)) \div RandomLevels

RECURSIVE shuffleFrom(_, _, _)
shuffleFrom(array, i, draws) ==
  IF i <= 0 THEN array
  ELSE LET j == RandomIndex(draws[i], i)
       IN shuffleFrom([array EXCEPT ![i + 1] = array[j + 1], ![j + 1] = array[i + 1]],
                      i - 1, draws)

shuffle(array, draws) == shuffleFrom(array, Len(array) - 1, draws)

pickRandomEntries(es, count, draws) == SubSeq(shuffle(es, draws), 1, count)

\* pickRandomEntries calling shuffle(entries) on its argument itself.
argumentShuffledInPlace(es, count, draws) == shuffle(es, draws)

\* The array given to pickRandomEntries, after the call: shuffle swaps the elements of
\* the copy [...entries], and slice copies again, so the argument keeps its elements
\* in their order.
argumentAfterPick(es, count, draws) == es

\* A faulty variant: the square root is rounded down.
determineGridSizeRoundedDown(ws) ==
  LET totalLetters == SumSeq([i \in 1..Len(ws) |-> Len(ws[i].word)])
      roughSize == CeilSqrt(totalLetters * 2)
  IN Max(MIN_GRID_SIZE,
         Min(MAX_GRID_SIZE,
             IF roughSize * roughSize = totalLetters * 2 THEN roughSize ELSE roughSize - 1))

determineGridSize(ws) ==
  LET totalLetters == SumSeq([i \in 1..Len(ws) |-> Len(ws[i].word)])
      roughSize == CeilSqrt(totalLetters * 2)
  IN Max(MIN_GRID_SIZE, Min(MAX_GRID_SIZE, roughSize))

\* ----------------------------------------------------------------- overlaps
computeLetterOverlaps(wordA, wordB) ==
  LET la == Len(wordA)
      lb == Len(wordB)
      pairs == [k \in 1..(la * lb) |->
                  [aIndex |-> (k - 1) \div lb, bIndex |-> (k - 1) % lb]]
  IN SelectSeq(pairs, LAMBDA p : wordA[p.aIndex + 1] = wordB[p.bIndex + 1])

\* The Map the two nested loops of buildOverlapMatrix fill, as a function of the
\* pairs <<i, j>> with i # j.
buildOverlapMatrix(es) ==
  [pair \in {ij \in (0..(Len(es) - 1)) \X (0..(Len(es) - 1)) : ij[1] # ij[2]} |->
     computeLetterOverlaps(es[pair[1] + 1].word, es[pair[2] + 1].word)]

\* matrix.get(`${i}:${j}`) || []
overlapsAt(matrix, i, j) == IF <<i, j>> \in DOMAIN matrix THEN matrix[<<i, j>>] ELSE <<>>

\* Array.from of calculateOverlapTotals from index on; totals[index + 1] is the
\* total of entry index.
RECURSIVE totalsFrom(_, _, _, _)
totalsFrom(count, matrix, index, totals) ==
  IF index >= count THEN totals
  ELSE totalsFrom(count, matrix, index + 1,
         Append(totals,
                SumSeq([j \in 1..count |->
                          IF index = j - 1 THEN 0 ELSE Len(overlapsAt(matrix, index, j - 1))])))

calculateOverlapTotals(count, matrix) == totalsFrom(count, matrix, 0, <<>>)

RECURSIVE selectInitialFrom(_, _, _, _, _)
selectInitialFrom(es, totals, i, bestIndex, best) ==
  IF i >= Len(es) THEN bestIndex
  ELSE LET score == totals[i + 1]
       IN IF \/ best.none
             \/ score > best.score
             \/ (score = best.score /\ Len(es[i + 1].word) > Len(es[bestIndex + 1].word))
          THEN selectInitialFrom(es, totals, i + 1, i, [none |-> FALSE, score |-> score])
          ELSE selectInitialFrom(es, totals, i + 1, bestIndex, best)

\* A faulty variant: the first entry with the greatest total, whatever its length.
selectFirstGreatest(es, totals) ==
  IF Len(es) = 0 THEN 0
  ELSE (CHOOSE i \in 1..Len(es) :
          /\ \A j \in 1..Len(es) : totals[j] <= totals[i]
          /\ \A j \in 1..(i - 1) : totals[j] < totals[i]) - 1

\* bestScore starts at -Infinity: best.none.
selectInitialEntryIndex(es, totals) ==
  selectInitialFrom(es, totals, 0, 0, [none |-> TRUE, score |-> 0])

\* ----------------------------------------------------------------- candidates
\* The comparator of selectNextEntries is negative: a sorts before b.
SortsBefore(a, b) ==
  IF b.overlapScore # a.overlapScore THEN b.overlapScore < a.overlapScore
  ELSE IF b.potential # a.potential THEN b.potential < a.potential
  ELSE Len(b.entry.word) < Len(a.entry.word)

\* Array.prototype.sort is stable: x goes before the first element it sorts before.
InsertBefore(sorted, x, later) ==
  IF later = {} THEN Append(sorted, x)
  ELSE SubSeq(sorted, 1, LeastOf(later) - 1) \o <<x>>
         \o SubSeq(sorted, LeastOf(later), Len(sorted))

InsertSorted(sorted, x) ==
  InsertBefore(sorted, x, {k \in 1..Len(sorted) : SortsBefore(x, sorted[k])})

RECURSIVE StableSort(_, _)
StableSort(sorted, rest) ==
  IF rest = <<>> THEN sorted ELSE StableSort(InsertSorted(sorted, Head(rest)), Tail(rest))

\* The reduce of selectNextEntries for the entry at index.
overlapScoreOf(index, ps, matrix) ==
  SumSeq([k \in 1..Len(ps) |-> Len(overlapsAt(matrix, index, ps[k].entryIndex))])

\* The forEach of selectNextEntries from entry i on.
RECURSIVE candidatesFrom(_, _, _, _, _, _, _)
candidatesFrom(es, usedSet, ps, matrix, totals, i, candidates) ==
  IF i >= Len(es) THEN candidates
  ELSE IF i \in usedSet \/ overlapScoreOf(i, ps, matrix) = 0
       THEN candidatesFrom(es, usedSet, ps, matrix, totals, i + 1, candidates)
       ELSE candidatesFrom(es, usedSet, ps, matrix, totals, i + 1,
              Append(candidates,
                     [entry |-> es[i + 1],
                      index |-> i,
                      overlapScore |-> overlapScoreOf(i, ps, matrix),
                      potential |-> totals[i + 1]]))

\* A faulty variant: the used set is not consulted.
selectNextEntriesIgnoringUsed(es, usedSet, ps, matrix, totals) ==
  StableSort(<<>>, candidatesFrom(es, {}, ps, matrix, totals, 0, <<>>))

selectNextEntries(es, usedSet, ps, matrix, totals) ==
  StableSort(<<>>, candidatesFrom(es, usedSet, ps, matrix, totals, 0, <<>>))

\* ----------------------------------------------------------------- options
\* A faulty variant: the two positions of the coincidence are exchanged.
OptionForExchanged(placement, overlap) ==
  IF placement.direction = "across"
  THEN [row |-> placement.row - overlap.bIndex,
        col |-> placement.col + overlap.aIndex,
        direction |-> "down"]
  ELSE [row |-> placement.row + overlap.aIndex,
        col |-> placement.col - overlap.bIndex,
        direction |-> "across"]

OptionFor(placement, overlap) ==
  IF placement.direction = "across"
  THEN [row |-> placement.row - overlap.aIndex,
        col |-> placement.col + overlap.bIndex,
        direction |-> "down"]
  ELSE [row |-> placement.row + overlap.bIndex,
        col |-> placement.col - overlap.aIndex,
        direction |-> "across"]

RECURSIVE AppendUnseen(_, _)
AppendUnseen(options, rest) ==
  IF rest = <<>> THEN options
  ELSE IF \E k \in 1..Len(options) : options[k] = Head(rest)
       THEN AppendUnseen(options, Tail(rest))
       ELSE AppendUnseen(Append(options, Head(rest)), Tail(rest))

\* overlaps.forEach of generatePlacementOptions for one placement, before the seen test.
optionsAgainst(placement, overlaps) ==
  [m \in 1..Len(overlaps) |-> OptionFor(placement, overlaps[m])]

generatePlacementOptions(candidate, ps, matrix) ==
  AppendUnseen(<<>>,
    Flatten([k \in 1..Len(ps) |->
               optionsAgainst(ps[k], overlapsAt(matrix, candidate.index, ps[k].entryIndex))]))

\* ----------------------------------------------------------------- board
createEmptyGrid(size) == [r \in 1..size |-> [c \in 1..size |-> null]]

createUsageGrid(size) ==
  [r \in 1..size |-> [c \in 1..size |-> [across |-> FALSE, down |-> FALSE]]]

\* grid[row][col] of the source, row and col counted from 0.
At(g, row, col) == g[row + 1][col + 1]

deltaRowOf(direction) == IF direction = "down" THEN 1 ELSE 0
deltaColOf(direction) == IF direction = "across" THEN 1 ELSE 0

isInsideGrid(row, col, size) == row >= 0 /\ col >= 0 /\ row < size /\ col < size

\* canPlace refusing every cell that already holds a letter, the shared one included.
canPlaceOnEmptyCells(word, row, col, direction, g, u) ==
  /\ row >= 0 /\ col >= 0
  /\ row + deltaRowOf(direction) * (Len(word) - 1) < Len(g)
  /\ col + deltaColOf(direction) * (Len(word) - 1) < Len(g)
  /\ \A i \in 0..(Len(word) - 1) :
       At(g, row + deltaRowOf(direction) * i, col + deltaColOf(direction) * i) = null

canPlace(word, row, col, direction, g, u) ==
  LET size == Len(g)
      deltaRow == deltaRowOf(direction)
      deltaCol == deltaColOf(direction)
      endRow == row + deltaRow * (Len(word) - 1)
      endCol == col + deltaCol * (Len(word) - 1)
      beforeRow == row - deltaRow
      beforeCol == col - deltaCol
      afterRow == row + deltaRow * Len(word)
      afterCol == col + deltaCol * Len(word)
      blocked(r, c, key) ==
        isInsideGrid(r, c, size) /\ At(g, r, c) # null /\ ~At(u, r, c)[key]
  IN /\ ~(row < 0 \/ col < 0 \/ endRow >= size \/ endCol >= size)
     /\ ~(isInsideGrid(beforeRow, beforeCol, size) /\ At(g, beforeRow, beforeCol) # null)
     /\ ~(isInsideGrid(afterRow, afterCol, size) /\ At(g, afterRow, afterCol) # null)
     /\ \A i \in 0..(Len(word) - 1) :
          LET currentRow == row + deltaRow * i
              currentCol == col + deltaCol * i
              existing == At(g, currentRow, currentCol)
          IN /\ ~(existing # null /\ existing # word[i + 1])
             /\ existing = null =>
                  IF direction = "across"
                  THEN /\ ~blocked(currentRow - 1, currentCol, "down")
                       /\ ~blocked(currentRow + 1, currentCol, "down")
                  ELSE /\ ~blocked(currentRow, currentCol - 1, "across")
                       /\ ~blocked(currentRow, currentCol + 1, "across")

\* The cells a word traverses, in order.
PathOf(word, row, col, direction) ==
  [i \in 1..Len(word) |->
     [row |-> row + deltaRowOf(direction) * (i - 1),
      col |-> col + deltaColOf(direction) * (i - 1)]]

\* The loop of applyPlacement from letter i on; acc holds grid, usage, filledCells
\* and usageUpdates.
RECURSIVE applyFrom(_, _, _, _, _, _)
applyFrom(word, row, col, direction, i, acc) ==
  IF i >= Len(word) THEN acc
  ELSE LET currentRow == row + deltaRowOf(direction) * i
           currentCol == col + deltaColOf(direction) * i
           usageKey == IF direction = "across" THEN "across" ELSE "down"
           empty == At(acc.grid, currentRow, currentCol) = null
       IN applyFrom(word, row, col, direction, i + 1,
            [grid |-> IF empty
                      THEN [acc.grid EXCEPT ![currentRow + 1][currentCol + 1] = word[i + 1]]
                      ELSE acc.grid,
             filledCells |-> IF empty
                             THEN Append(acc.filledCells,
                                         [row |-> currentRow, col |-> currentCol])
                             ELSE acc.filledCells,
             usage |-> [acc.usage EXCEPT ![currentRow + 1][currentCol + 1][usageKey] = TRUE],
             usageUpdates |-> Append(acc.usageUpdates,
                                     [row |-> currentRow, col |-> currentCol,
                                      key |-> usageKey])])

\* What applyPlacement returns, with the grid and the usage map it has written.
appliedWith(entry, entryIndex, row, col, direction, final) ==
  [placement |-> [word |-> entry.word, clue |-> entry.clue, row |-> row,
                  col |-> col, direction |-> direction, entryIndex |-> entryIndex],
   filledCells |-> final.filledCells,
   usageUpdates |-> final.usageUpdates,
   grid |-> final.grid,
   usage |-> final.usage]

applyPlacement(entry, entryIndex, row, col, direction, g, u) ==
  appliedWith(entry, entryIndex, row, col, direction,
              applyFrom(entry.word, row, col, direction, 0,
                        [grid |-> g, usage |-> u, filledCells |-> <<>>,
                         usageUpdates |-> <<>>]))

\* grid[row][col] = null unless a direction still uses the cell.
clearIfUnused(g, u, row, col) ==
  IF ~At(u, row, col).across /\ ~At(u, row, col).down
  THEN [g EXCEPT ![row + 1][col + 1] = null]
  ELSE g

\* usageUpdates.forEach of revertPlacement, from element i on.
\* One callback of usageUpdates.forEach, newUsage being the usage map it has written.
revertOne(g, newUsage, row, col) ==
  [usage |-> newUsage, grid |-> clearIfUnused(g, newUsage, row, col)]

RECURSIVE revertUsage(_, _, _)
revertUsage(acc, usageUpdates, i) ==
  IF i > Len(usageUpdates) THEN acc
  ELSE revertUsage(
         revertOne(acc.grid,
                   [acc.usage EXCEPT ![usageUpdates[i].row + 1][usageUpdates[i].col + 1]
                                      [usageUpdates[i].key] = FALSE],
                   usageUpdates[i].row, usageUpdates[i].col),
         usageUpdates, i + 1)

\* filledCells.forEach of revertPlacement, from element i on.
RECURSIVE revertFilled(_, _, _)
revertFilled(acc, filledCells, i) ==
  IF i > Len(filledCells) THEN acc
  ELSE revertFilled([usage |-> acc.usage,
                     grid |-> clearIfUnused(acc.grid, acc.usage, filledCells[i].row,
                                            filledCells[i].col)],
                    filledCells, i + 1)

revertPlacement(g, u, filledCells, usageUpdates) ==
  revertFilled(revertUsage([grid |-> g, usage |-> u], usageUpdates, 1), filledCells, 1)

\* ----------------------------------------------------------------- trimming
\* grid.length and grid[0]?.length || 0.
RowsOf(g) == Len(g)
ColsOf(g) == IF Len(g) = 0 THEN 0 ELSE Len(g[1])

\* The rows and the columns of the cells that pass the test of trimLayout's scan.
letterRows(g) ==
  {r \in 0..(Len(g) - 1) : \E c \in 0..(Len(g[r + 1]) - 1) : At(g, r, c) # null}
letterCols(g) ==
  {c \in 0..(Len(g) - 1) : \E r \in 0..(Len(g) - 1) : c < Len(g[r + 1]) /\ At(g, r, c) # null}

\* The second half of trimLayout: the copy of the bounding box and the shifted placements.
trimTo(g, ps, minRow, maxRow, minCol, maxCol) ==
  [grid |-> [r \in 1..(maxRow - minRow + 1) |->
               [c \in 1..(maxCol - minCol + 1) |-> g[r + minRow][c + minCol]]],
   placements |-> [k \in 1..Len(ps) |->
                     [ps[k] EXCEPT !.row = ps[k].row - minRow, !.col = ps[k].col - minCol]]]

\* A faulty variant: the box keeps one row and one column past the last letters.
trimLoosely(g, ps, rowSet, colSet) ==
  IF rowSet = {} THEN [grid |-> g, placements |-> ps]
  ELSE trimTo(g, ps, LeastOf(rowSet), Min(GreatestOf(rowSet) + 1, Len(g) - 1),
              LeastOf(colSet), Min(GreatestOf(colSet) + 1, Len(g) - 1))

trimAround(g, ps, rowSet, colSet) ==
  IF rowSet = {} THEN [grid |-> g, placements |-> ps]
  ELSE trimTo(g, ps, LeastOf(rowSet), GreatestOf(rowSet), LeastOf(colSet), GreatestOf(colSet))

trimLayout(g, ps) == trimAround(g, ps, letterRows(g), letterCols(g))

\* ----------------------------------------------------------------- numbering
\* placementMap.has / placementMap.get: the last placement set under the key.
MapHas(ps, direction, row, col) ==
  \E k \in 1..Len(ps) : ps[k].direction = direction /\ ps[k].row = row /\ ps[k].col = col

MapGet(ps, direction, row, col) ==
  CHOOSE k \in 1..Len(ps) :
    /\ ps[k].direction = direction /\ ps[k].row = row /\ ps[k].col = col
    /\ \A m \in (k + 1)..Len(ps) :
         ~(ps[m].direction = direction /\ ps[m].row = row /\ ps[m].col = col)

ClueOf(number, placement) ==
  [number |-> number, clue |-> placement.clue, answerLength |-> Len(placement.word)]

\* The startAcross / startDown test of assignNumbers for one direction.
startsAt(g, ps, direction, row, col) ==
  /\ MapHas(ps, direction, row, col)
  /\ IF direction = "across" THEN col = 0 \/ At(g, row, col - 1) = null
                              ELSE row = 0 \/ At(g, row - 1, col) = null

\* A faulty variant: the clue is put at the front of its list.
withCluePrepended(acc, starts, k, placement, listName) ==
  IF starts
  THEN [acc EXCEPT !.numbers[k] = acc.counter,
                   ![listName] = <<ClueOf(acc.counter, placement)>> \o @]
  ELSE acc

\* if (startAcross) { ... } and if (startDown) { ... }: k is the placement the map
\* returns; acc.numbers[k] is the number property of placement k.
withClue(acc, starts, k, placement, listName) ==
  IF starts
  THEN [acc EXCEPT !.numbers[k] = acc.counter,
                   ![listName] = Append(@, ClueOf(acc.counter, placement))]
  ELSE acc

\* A faulty variant: the counter advances once per clue instead of once per cell.
numberCellPerClue(g, ps, row, col, acc, startAcross, startDown) ==
  IF ~startAcross /\ ~startDown THEN acc
  ELSE [withClue(withClue(acc, startAcross,
                          IF startAcross THEN MapGet(ps, "across", row, col) ELSE 1,
                          IF startAcross THEN ps[MapGet(ps, "across", row, col)] ELSE ps[1],
                          "acrossClues"),
                 startDown,
                 IF startDown THEN MapGet(ps, "down", row, col) ELSE 1,
                 IF startDown THEN ps[MapGet(ps, "down", row, col)] ELSE ps[1],
                 "downClues")
          EXCEPT !.counter = acc.counter + (IF startAcross THEN 1 ELSE 0)
                                         + (IF startDown THEN 1 ELSE 0),
                 !.numbersMap[row + 1][col + 1] = acc.counter]

\* The body of the inner loop of assignNumbers at a letter cell.
numberCell(g, ps, row, col, acc, startAcross, startDown) ==
  IF ~startAcross /\ ~startDown THEN acc
  ELSE [withClue(withClue(acc, startAcross,
                          IF startAcross THEN MapGet(ps, "across", row, col) ELSE 1,
                          IF startAcross THEN ps[MapGet(ps, "across", row, col)] ELSE ps[1],
                          "acrossClues"),
                 startDown,
                 IF startDown THEN MapGet(ps, "down", row, col) ELSE 1,
                 IF startDown THEN ps[MapGet(ps, "down", row, col)] ELSE ps[1],
                 "downClues")
          EXCEPT !.counter = acc.counter + 1,
                 !.numbersMap[row + 1][col + 1] = acc.counter]

\* The two nested loops of assignNumbers from cell number `cell` (row-major) on.
RECURSIVE numberFrom(_, _, _, _, _, _)
numberFrom(g, ps, rows, cols, cell, acc) ==
  IF cols = 0 \/ cell >= rows * cols THEN acc
  ELSE IF At(g, cell \div cols, cell % cols) = null
       THEN numberFrom(g, ps, rows, cols, cell + 1, acc)
       ELSE numberFrom(g, ps, rows, cols, cell + 1,
              numberCell(g, ps, cell \div cols, cell % cols, acc,
                         startsAt(g, ps, "across", cell \div cols, cell % cols),
                         startsAt(g, ps, "down", cell \div cols, cell % cols)))

\* What assignNumbers returns once its loops end in final.
numbered(ps, final) ==
  [numbersMap |-> final.numbersMap,
   acrossClues |-> final.acrossClues,
   downClues |-> final.downClues,
   placements |-> [k \in 1..Len(ps) |->
                     [word |-> ps[k].word, clue |-> ps[k].clue, row |-> ps[k].row,
                      col |-> ps[k].col, direction |-> ps[k].direction,
                      entryIndex |-> ps[k].entryIndex, number |-> final.numbers[k]]]]

assignNumbers(g, ps) ==
  numbered(ps,
    numberFrom(g, ps, RowsOf(g), ColsOf(g), 0,
      [counter |-> 1,
       numbersMap |-> [r \in 1..RowsOf(g) |-> [c \in 1..ColsOf(g) |-> noNumber]],
       numbers |-> [k \in 1..Len(ps) |-> noNumber],
       acrossClues |-> <<>>,
       downClues |-> <<>>]))

\* ----------------------------------------------------------------- scoring
\* Whether placement p traverses the cell (row, col).
Traverses(p, row, col) ==
  IF p.direction = "down"
  THEN col = p.col /\ row >= p.row /\ row < p.row + Len(p.word)
  ELSE row = p.row /\ col >= p.col /\ col < p.col + Len(p.word)

\* The cells whose key was counted more than once.
countIntersections(ps) ==
  LET cells == UNION {{PathOf(ps[k].word, ps[k].row, ps[k].col, ps[k].direction)[i] :
                         i \in 1..Len(ps[k].word)} : k \in 1..Len(ps)}
      count(cell) == Cardinality({k \in 1..Len(ps) : Traverses(ps[k], cell.row, cell.col)})
  IN Cardinality({cell \in cells : count(cell) > 1})

\* coverageScore + intersectionBonus as the fraction num / den (0.02 = 1/50).
scoreLayout(layout) ==
  LET rows == RowsOf(layout.grid)
      cols == ColsOf(layout.grid)
      filled == Cardinality({rc \in (1..rows) \X (1..cols) : layout.grid[rc[1]][rc[2]] # null})
  IN IF rows = 0 \/ cols = 0 THEN [num |-> 0, den |-> 1]
     ELSE [num |-> 50 * filled + countIntersections(layout.placements) * rows * cols,
           den |-> 50 * rows * cols]

\* ----------------------------------------------------------------- scores
\* A faulty variant: bestScore starts above every score.
plusInfinity == [num |-> 1000, den |-> 1]
minusInfinity == [num |-> -1, den |-> 1]     \* below every score (scores are >= 0)
\* A faulty variant: the comparison is reversed.
ScoreLess(a, b) == a.num * b.den < b.num * a.den
ScoreGreater(a, b) == a.num * b.den > b.num * a.den
\* A faulty variant: the threshold is 85 instead of 0.85.
ScoreIsHighPercent(a) == a.num >= 85 * a.den
\* score >= 0.85
ScoreIsHigh(a) == a.num * 100 >= 85 * a.den

\* ----------------------------------------------------------------- search frame
\* The (candidate, option) pairs one call of backtrackPlace iterates over, in order;
\* none when the call returns true at once.
pairsOf(candidate, options) ==
  [m \in 1..Len(options) |-> [candidate |-> candidate, option |-> options[m]]]

pairsOfAll(nextEntries, ps, matrix) ==
  Flatten([k \in 1..Len(nextEntries) |->
             pairsOf(nextEntries[k], generatePlacementOptions(nextEntries[k], ps, matrix))])

frameOptions(ws, ps, usedSet, matrix, totals) ==
  IF Len(ps) = Len(ws) THEN <<>>
  ELSE pairsOfAll(selectNextEntries(ws, usedSet, ps, matrix, totals), ps, matrix)

\* The first position after `from` whose option passes canPlace on the current board;
\* 0 when the loops run out.
RECURSIVE nextLegal(_, _, _, _)
nextLegal(options, from, g, u) ==
  IF from >= Len(options) THEN 0
  ELSE IF canPlace(options[from + 1].candidate.entry.word, options[from + 1].option.row,
                   options[from + 1].option.col, options[from + 1].option.direction, g, u)
       THEN from + 1
       ELSE nextLegal(options, from + 1, g, u)

\* ----------------------------------------------------------------- initial state
ArrayOf(list) == [isArray |-> TRUE, items |-> list]
\* A value for which Array.isArray is false.
notArray == [isArray |-> FALSE, items |-> <<>>]

\* createPuzzle is called.
Init ==
  /\ pc = "start"
  /\ raw = notArray
  /\ entries \in {ArrayOf(list) : list \in InputLists} \cup {notArray}
  /\ requestedCount \in ((MIN_WORDS - 1)..MaxRequested) \cup {MAX_WORDS + 1}
  /\ words = <<>>
  /\ gridSize = 0
  /\ attempt = 0
  /\ bestLayout = <<>>
  /\ bestScore = minusInfinity
  /\ successCount = 0
  /\ grid = <<>>
  /\ usage = <<>>
  /\ placements = <<>>
  /\ used = {}
  /\ overlapMatrix = <<>>
  /\ overlapTotals = <<>>
  /\ undo = <<>>
  /\ frames = <<>>
  /\ reports = 0
  /\ outcomes = {}
  /\ result = <<>>
  /\ error = ""
  /\ terminal = <<>>
  /\ app = appAtMount
  /\ channel = noMessages

\* ----------------------------------------------------------------- createPuzzle
\* A faulty variant: the minimum is taken one too low.
validationErrorBelowMinimum(es, count) ==
  IF ~es.isArray \/ Len(es.items) = 0 THEN "NotLoaded"
  ELSE IF count < MIN_WORDS - 1 THEN "CountBelowMinimum"
  ELSE IF count > Len(es.items) THEN "NotEnoughEntries"
  ELSE ""

\* A faulty variant: the count is not compared with the number of entries.
validationErrorAnyCount(es, count) ==
  IF ~es.isArray \/ Len(es.items) = 0 THEN "NotLoaded"
  ELSE IF count < MIN_WORDS THEN "CountBelowMinimum"
  ELSE ""

validationError(es, count) ==
  IF ~es.isArray \/ Len(es.items) = 0 THEN "NotLoaded"
  ELSE IF count < MIN_WORDS THEN "CountBelowMinimum"
  ELSE IF count > Len(es.items) THEN "NotEnoughEntries"
  ELSE ""

\* createPuzzle throws from one of its three input checks.
Reject ==
  /\ pc = "start"
  /\ validationError(entries, requestedCount) # ""
  /\ error' = validationError(entries, requestedCount)
  /\ pc' = "failed"
  /\ UNCHANGED << app, channel, raw, terminal, outcomes, entries, requestedCount, words, gridSize, attempt,
                  bestLayout, bestScore, successCount, grid, usage, placements, used, overlapMatrix,
                  overlapTotals, undo, frames, reports, result >>

\* The values Math.random() returns (as multiples of 1/RandomLevels) at the calls
\* i = n-1 .. 1 of one shuffle of n entries.
DrawsFor(n) ==
  IF n - 1 <= MaxDrawn THEN [1..(n - 1) -> 0..(RandomLevels - 1)]
  ELSE {[i \in 1..(n - 1) |-> k] : k \in 0..(RandomLevels - 1)}

\* createPuzzle up to the call of buildCrossword, and buildCrossword's initialisation.
PickWith(drawSet) ==
  /\ pc = "start"
  /\ validationError(entries, requestedCount) = ""
  /\ \E draws \in drawSet :
       /\ words' = pickRandomEntries(entries.items, requestedCount, draws)
       /\ entries' = ArrayOf(argumentAfterPick(entries.items, requestedCount, draws))
       /\ gridSize' = determineGridSize(words')
  /\ reports' = reports + 2
  /\ attempt' = 0
  /\ bestLayout' = <<>>
  /\ bestScore' = minusInfinity
  /\ successCount' = 0
  /\ outcomes' = {}
  /\ pc' = "loop"
  /\ UNCHANGED << app, channel, raw, terminal, requestedCount, grid, usage, placements, used,
                  overlapMatrix, overlapTotals, undo, frames, result, error >>

Pick == PickWith(DrawsFor(Len(entries.items)))

\* ----------------------------------------------------------------- attemptLayout
centerRowOf(size) == size \div 2
centerColOf(size, word) == Max(0, (size - Len(word)) \div 2)

\* One iteration of buildCrossword's loop begins: the report, and attemptLayout up to
\* its choice of the initial entry.
BeginAttempt ==
  /\ pc = "loop"
  /\ attempt < maxAttempts
  /\ reports' = reports + 1
  /\ grid' = createEmptyGrid(gridSize)
  /\ usage' = createUsageGrid(gridSize)
  /\ overlapMatrix' = buildOverlapMatrix(words)
  /\ overlapTotals' = calculateOverlapTotals(Len(words), overlapMatrix')
  /\ placements' = <<>>
  /\ used' = {}
  /\ undo' = <<>>
  /\ frames' = <<>>
  /\ pc' = "initial"
  /\ UNCHANGED << app, channel, raw, terminal, outcomes, entries, requestedCount, words, gridSize, attempt,
                  bestLayout, bestScore, successCount, result, error >>

initialIndex == selectInitialEntryIndex(words, overlapTotals)

\* Neither of the two early returns of attemptLayout is taken for the entry at index.
initialFits(index) ==
  /\ Len(words[index + 1].word) # 0
  /\ canPlace(words[index + 1].word, centerRowOf(gridSize),
              centerColOf(gridSize, words[index + 1].word), "across", grid, usage)

\* The locals of attemptLayout and the root call of backtrackPlace once the initial
\* entry is committed as `applied`.
CommitInitial(index, applied) ==
  /\ grid' = applied.grid
  /\ usage' = applied.usage
  /\ placements' = << applied.placement >>
  /\ used' = {index}
  /\ undo' = << [filledCells |-> applied.filledCells,
                 usageUpdates |-> applied.usageUpdates] >>
  /\ frames' = << [options |-> frameOptions(words, placements', used', overlapMatrix,
                                            overlapTotals),
                   position |-> 0] >>

\* attemptLayout commits the initial entry across the centre and calls backtrackPlace.
PlaceInitialAt(index) ==
  /\ initialFits(index)
  /\ CommitInitial(index,
                   applyPlacement(words[index + 1], index, centerRowOf(gridSize),
                                  centerColOf(gridSize, words[index + 1].word),
                                  "across", grid, usage))

PlaceInitial ==
  /\ pc = "initial"
  /\ PlaceInitialAt(initialIndex)
  /\ pc' = "search"
  /\ UNCHANGED << app, channel, raw, terminal, outcomes, entries, requestedCount, words, gridSize, attempt,
                  bestLayout, bestScore, successCount, overlapMatrix, overlapTotals, reports,
                  result, error >>

\* The locals of attemptLayout are dropped when it returns.
DropLocals ==
  /\ grid' = <<>>
  /\ usage' = <<>>
  /\ placements' = <<>>
  /\ used' = {}
  /\ overlapMatrix' = <<>>
  /\ overlapTotals' = <<>>
  /\ undo' = <<>>
  /\ frames' = <<>>

\* attemptLayout returns null before anything is placed; the loop continues.
InitialRejected ==
  /\ pc = "initial"
  /\ ~initialFits(initialIndex)
  /\ attempt' = attempt + 1
  /\ outcomes' = outcomes \cup { <<>> }
  /\ DropLocals
  /\ pc' = "loop"
  /\ UNCHANGED << app, channel, raw, terminal, entries, requestedCount, words, gridSize, bestLayout, bestScore,
                  successCount, reports, result, error >>

\* ----------------------------------------------------------------- backtrackPlace
topFrame == frames[Len(frames)]

\* The for loops of the innermost call, resumed after its current position: the
\* position of the next option that passes canPlace, 0 when the loops run out.
nextStep == nextLegal(topFrame.options, topFrame.position, grid, usage)

\* The placement is pushed and backtrackPlace is called again.
\* A faulty variant: the caller does not remember how far its loops have come.
CommitWithoutAdvancing(k, index, applied) ==
  /\ grid' = applied.grid
  /\ usage' = applied.usage
  /\ placements' = Append(placements, applied.placement)
  /\ used' = used \cup {index}
  /\ undo' = Append(undo, [filledCells |-> applied.filledCells,
                           usageUpdates |-> applied.usageUpdates])
  /\ frames' = Append(frames,
                      [options |-> frameOptions(words, placements', used', overlapMatrix,
                                                overlapTotals),
                       position |-> 0])

Commit(k, index, applied) ==
  /\ grid' = applied.grid
  /\ usage' = applied.usage
  /\ placements' = Append(placements, applied.placement)
  /\ used' = used \cup {index}
  /\ undo' = Append(undo, [filledCells |-> applied.filledCells,
                           usageUpdates |-> applied.usageUpdates])
  /\ frames' = Append([frames EXCEPT ![Len(frames)].position = k],
                      [options |-> frameOptions(words, placements', used', overlapMatrix,
                                                overlapTotals),
                       position |-> 0])

PlaceAt(k) ==
  /\ k # 0
  /\ Commit(k, topFrame.options[k].candidate.index,
            applyPlacement(topFrame.options[k].candidate.entry,
                           topFrame.options[k].candidate.index,
                           topFrame.options[k].option.row,
                           topFrame.options[k].option.col,
                           topFrame.options[k].option.direction, grid, usage))

\* The innermost call commits its next legal option and recurses.
Place ==
  /\ pc = "search"
  /\ Len(placements) # Len(words)
  /\ PlaceAt(nextStep)
  /\ UNCHANGED << app, channel, raw, terminal, outcomes, pc, entries, requestedCount, words, gridSize, attempt,
                  bestLayout, bestScore, successCount, overlapMatrix, overlapTotals, reports,
                  result, error >>

\* The innermost call has run out of candidates and options: it returns false.
noOptionLeft ==
  /\ pc = "search"
  /\ Len(placements) # Len(words)
  /\ nextStep = 0

Reverted(last, reverted) ==
  /\ grid' = reverted.grid
  /\ usage' = reverted.usage
  /\ placements' = SubSeq(placements, 1, last - 1)
  /\ used' = used \ {placements[last].entryIndex}
  /\ undo' = SubSeq(undo, 1, last - 1)

\* The innermost call returns false; its caller pops and reverts the placement it made.
Backtrack ==
  /\ pc = "search"
  /\ Len(frames) > 1
  /\ noOptionLeft
  /\ Reverted(Len(placements),
              revertPlacement(grid, usage, undo[Len(placements)].filledCells,
                              undo[Len(placements)].usageUpdates))
  /\ frames' = SubSeq(frames, 1, Len(frames) - 1)
  /\ UNCHANGED << app, channel, raw, terminal, outcomes, pc, entries, requestedCount, words, gridSize, attempt,
                  bestLayout, bestScore, successCount, overlapMatrix, overlapTotals, reports,
                  result, error >>

\* The root call returns false: attemptLayout returns null and the loop continues.
AttemptFails ==
  /\ pc = "search"
  /\ Len(frames) = 1
  /\ noOptionLeft
  /\ attempt' = attempt + 1
  /\ outcomes' = outcomes \cup { <<>> }
  /\ DropLocals
  /\ pc' = "loop"
  /\ UNCHANGED << app, channel, raw, terminal, entries, requestedCount, words, gridSize, bestLayout, bestScore,
                  successCount, reports, result, error >>

\* What attemptLayout returns once backtrackPlace has returned true.
layoutWith(trimmedGrid, numbering) ==
  [grid |-> trimmedGrid,
   placements |-> numbering.placements,
   numbersMap |-> numbering.numbersMap,
   acrossClues |-> numbering.acrossClues,
   downClues |-> numbering.downClues]

layoutFrom(trimmed) ==
  layoutWith(trimmed.grid, assignNumbers(trimmed.grid, trimmed.placements))

layoutOf(g, ps) == layoutFrom(trimLayout(g, ps))

\* The body of buildCrossword's loop after a successful attempt.
Compare(layout, score, better, stop) ==
  /\ successCount' = successCount + 1
  /\ outcomes' = outcomes \cup { << layout >> }
  /\ bestScore' = IF better THEN score ELSE bestScore
  /\ bestLayout' = IF better THEN << layout >> ELSE bestLayout
  /\ reports' = reports + (IF better THEN 1 ELSE 0) + (IF stop THEN 1 ELSE 0)
  /\ attempt' = IF stop THEN attempt ELSE attempt + 1
  /\ pc' = IF stop THEN "exit" ELSE "loop"

Scored(layout, score) ==
  Compare(layout, score, ScoreGreater(score, bestScore),
          ScoreGreater(score, bestScore) /\ ScoreIsHigh(score))

\* Every call returns true; the layout is trimmed, numbered, scored and compared.
CompleteWith(layout) == Scored(layout, scoreLayout(layout))

Complete ==
  /\ pc = "search"
  /\ Len(placements) = Len(words)
  /\ CompleteWith(layoutOf(grid, placements))
  /\ DropLocals
  /\ UNCHANGED << app, channel, raw, terminal, entries, requestedCount, words, gridSize, result, error >>

\* ----------------------------------------------------------------- the outcome
loopEnded == pc = "exit" \/ (pc = "loop" /\ attempt >= maxAttempts)

\* The object createPuzzle returns.
puzzleOf(layout, ws) ==
  [grid |-> layout.grid,
   placements |-> layout.placements,
   numbersMap |-> layout.numbersMap,
   acrossClues |-> layout.acrossClues,
   downClues |-> layout.downClues,
   requestedCount |-> Len(ws),
   rows |-> RowsOf(layout.grid),
   cols |-> ColsOf(layout.grid)]

\* buildCrossword returns bestLayout and createPuzzle returns the result.
Return ==
  /\ loopEnded
  /\ bestLayout # <<>>
  /\ result' = << puzzleOf(bestLayout[1], words) >>
  /\ reports' = reports + 1
  /\ pc' = "done"
  /\ UNCHANGED << app, channel, raw, terminal, outcomes, entries, requestedCount, words, gridSize, attempt,
                  bestLayout, bestScore, successCount, grid, usage, placements, used, overlapMatrix,
                  overlapTotals, undo, frames, error >>

\* buildCrossword throws.
Fail ==
  /\ loopEnded
  /\ bestLayout = <<>>
  /\ error' = IF successCount = 0 THEN "Unplaceable" ELSE "NoCompactLayout"
  /\ pc' = "failed"
  /\ UNCHANGED << app, channel, raw, terminal, outcomes, entries, requestedCount, words, gridSize, attempt,
                  bestLayout, bestScore, successCount, grid, usage, placements, used, overlapMatrix,
                  overlapTotals, undo, frames, reports, result >>

\* The statement the next step begins with is a call of report (lines 71, 112, 121
\* and 76; the calls of lines 74 and 125 follow those of 71 and 121 in the same step).
reportIsDue ==
  \/ pc = "start" /\ validationError(entries, requestedCount) = ""
  \/ pc = "loop" /\ attempt < maxAttempts
  \/ /\ pc = "search"
     /\ Len(placements) = Len(words)
     /\ ScoreGreater(scoreLayout(layoutOf(grid, placements)), bestScore)
  \/ loopEnded /\ bestLayout # <<>>

\* report is onProgress itself, called outside any try block: when the callback
\* throws, its exception leaves createPuzzle.
ProgressThrows ==
  /\ reportIsDue
  /\ reports' = reports + 1
  /\ error' = "ProgressError"
  /\ pc' = "aborted"
  /\ UNCHANGED << app, channel, raw, terminal, outcomes, entries, requestedCount, words, gridSize, attempt,
                  bestLayout, bestScore, successCount, grid, usage, placements, used,
                  overlapMatrix, overlapTotals, undo, frames, result >>

Next ==
  \/ ProgressThrows
  \/ Reject
  \/ Pick
  \/ BeginAttempt
  \/ PlaceInitial
  \/ InitialRejected
  \/ Place
  \/ Backtrack
  \/ AttemptFails
  \/ Complete
  \/ Return
  \/ Fail

Spec == Init /\ [][Next]_vars

\* ----------------------------------------------------------------- normalizeEntries
\* A string is the sequence of its characters.  A JavaScript value is its type and
\* the string its toString() returns; an element of the raw array is its kind
\* ("object" when typeof is "object" and it is not null) and its properties, an absent
\* property being undefined.
MaxRaw == 2     \* the raw array has at most MaxRaw elements

undefined == [type |-> "undefined", text |-> <<>>]
Str(chars) == [type |-> "string", text |-> chars]
\* The boolean true; its toString() is "true".
true == [type |-> "boolean", text |-> << "t", "r", "u", "e" >>]

wordFields == << "word", "answer", "solution", "text", "entry" >>
clueFields == << "clue", "question", "prompt", "hint", "definition" >>
FieldNames == {wordFields[i] : i \in 1..Len(wordFields)} \cup
              {clueFields[i] : i \in 1..Len(clueFields)}

\* The object { [wordField]: w, [clueField]: c }.
ObjectWith(wordField, w, clueField, c) ==
  [kind |-> "object",
   fields |-> [n \in FieldNames |->
                 IF n = wordField THEN w ELSE IF n = clueField THEN c ELSE undefined]]

\* An element that is not an object: null, a number, a string.
NonObject(kind) == [kind |-> kind, fields |-> [n \in FieldNames |-> undefined]]

RawItems ==
  { ObjectWith("word", Str(<< " ", "c", "o", "-", "o", "p", "!", " " >>),
               "clue", Str(<< "S", "h", "a", "r", "e", "d" >>)),
    ObjectWith("word", Str(<< "A" >>), "clue", Str(<< "T", "o", "o" >>)),
    ObjectWith("word", Str(<< "G", "O", "O", "D" >>), "clue", Str(<< " ", "\t" >>)),
    ObjectWith("word", Str(<< "1", "2", "3" >>), "clue", Str(<< "N", "o", "s" >>)),
    ObjectWith("answer", Str(<< "w", "o", "r", "l", "d" >>),
               "hint", Str(<< " ", "P", "l", "a", "n", " ", "e", "t", " ", " " >>)),
    ObjectWith("word", Str(<< "a", "1", "B" >>), "clue", undefined),
    ObjectWith("word", true, "clue", Str(<< "Y", "e", "s" >>)),
    ObjectWith("text", Str(<< "c", "r", "o", "s", "s", "w", "o", "r", "d", "g", "r", "i", "d" >>),
               "clue", Str(<< "L", "o", "n", "g" >>)),
    NonObject("null"),
    NonObject("number") }

RECURSIVE SeqsUpTo(_, _)
SeqsUpTo(S, n) ==
  IF n = 0 THEN { <<>> }
  ELSE SeqsUpTo(S, n - 1) \cup
       {Append(q, x) : q \in {r \in SeqsUpTo(S, n - 1) : Len(r) = n - 1}, x \in S}

RawInputs == {ArrayOf(items) : items \in SeqsUpTo(RawItems, MaxRaw)} \cup {notArray}

LowerCase ==
  << "a", "b", "c", "d", "e", "f", "g", "h", "i", "j", "k", "l", "m",
     "n", "o", "p", "q", "r", "s", "t", "u", "v", "w", "x", "y", "z" >>
Letters == {Alphabet[i] : i \in 1..Len(Alphabet)}
WhiteSpace == {" ", "\t", "\n"}

\* String.prototype.toUpperCase on the characters used here: a lower-case letter
\* becomes its capital, every other character stays.
upperOf(ch) ==
  IF \E i \in 1..Len(LowerCase) : LowerCase[i] = ch
  THEN Alphabet[CHOOSE i \in 1..Len(LowerCase) : LowerCase[i] = ch]
  ELSE ch

toUpperCase(chars) == [i \in 1..Len(chars) |-> upperOf(chars[i])]

\* A faulty variant: digits are kept too.
replaceNonAlphanumerics(chars) ==
  SelectSeq(chars, LAMBDA ch : ch \in Letters \cup {"0", "1", "2", "3", "4", "5", "6", "7", "8", "9"})

\* .replace(/[^A-Z]/g, "")
replaceNonLetters(chars) == SelectSeq(chars, LAMBDA ch : ch \in Letters)

RECURSIVE trimStart(_)
trimStart(chars) ==
  IF chars # <<>> /\ Head(chars) \in WhiteSpace THEN trimStart(Tail(chars)) ELSE chars

RECURSIVE trimEnd(_)
trimEnd(chars) ==
  IF chars # <<>> /\ chars[Len(chars)] \in WhiteSpace
  THEN trimEnd(SubSeq(chars, 1, Len(chars) - 1))
  ELSE chars

\* String.prototype.trim
trim(chars) == trimEnd(trimStart(chars))

\* item[names[1]] ?? item[names[2]] ?? ... ?? ""
RECURSIVE firstPresent(_, _)
firstPresent(item, names) ==
  IF names = <<>> THEN Str(<<>>)
  ELSE IF item.fields[Head(names)].type \notin {"undefined", "null"}
       THEN item.fields[Head(names)]
       ELSE firstPresent(item, Tail(names))

\* The value the map callback returns for an object: <<>> is null.
entryOf(cleanWord, cleanClue, index) ==
  IF Len(cleanWord) < 2 \/ Len(cleanClue) = 0 THEN <<>>
  ELSE << Entry(cleanWord, cleanClue, index) >>

normalizeItem(item, index) ==
  IF item.kind # "object" THEN <<>>
  ELSE entryOf(replaceNonLetters(toUpperCase(firstPresent(item, wordFields).text)),
               trim(firstPresent(item, clueFields).text),
               index)

\* A faulty variant: originalIndex is the position in the filtered list.
renumbered(es) == [k \in 1..Len(es) |-> Entry(es[k].word, es[k].clue, k - 1)]
normalizeEntriesRenumbered(items) ==
  renumbered(Flatten([i \in 1..Len(items) |-> normalizeItem(items[i], i - 1)]))

\* raw.map(...).filter(Boolean)
normalizeEntries(items) ==
  Flatten([i \in 1..Len(items) |-> normalizeItem(items[i], i - 1)])

\* A faulty variant: the result is never taken for empty.
neverEmpty(es) == FALSE
\* entries.length === 0
isEmpty(es) == Len(es) = 0

\* normalizeEntries is called.
InitNormalize ==
  /\ pc = "raw"
  /\ raw \in RawInputs
  /\ entries = notArray
  /\ requestedCount = 0
  /\ words = <<>>
  /\ gridSize = 0
  /\ attempt = 0
  /\ bestLayout = <<>>
  /\ bestScore = minusInfinity
  /\ successCount = 0
  /\ grid = <<>>
  /\ usage = <<>>
  /\ placements = <<>>
  /\ used = {}
  /\ overlapMatrix = <<>>
  /\ overlapTotals = <<>>
  /\ undo = <<>>
  /\ frames = <<>>
  /\ reports = 0
  /\ outcomes = {}
  /\ result = <<>>
  /\ error = ""
  /\ terminal = <<>>
  /\ app = appAtMount
  /\ channel = noMessages

\* What normalizeEntries does not touch.
NormalizeFrame ==
  UNCHANGED << app, channel, raw, terminal, requestedCount, words, gridSize, attempt, bestLayout, bestScore,
               successCount, grid, usage, placements, used, overlapMatrix,
               overlapTotals, undo, frames, reports, outcomes, result >>

\* normalizeEntries throws: the raw value is not an array.
RejectNotArray ==
  /\ pc = "raw"
  /\ ~raw.isArray
  /\ error' = "NotAnArray"
  /\ pc' = "rejected"
  /\ UNCHANGED entries
  /\ NormalizeFrame

\* normalizeEntries throws: no element survived.
RejectNoValid ==
  /\ pc = "raw"
  /\ raw.isArray
  /\ isEmpty(normalizeEntries(raw.items))
  /\ error' = "NoValidEntries"
  /\ pc' = "rejected"
  /\ UNCHANGED entries
  /\ NormalizeFrame

\* normalizeEntries returns the surviving entries.
Normalize ==
  /\ pc = "raw"
  /\ raw.isArray
  /\ ~isEmpty(normalizeEntries(raw.items))
  /\ entries' = ArrayOf(normalizeEntries(raw.items))
  /\ pc' = "normalized"
  /\ UNCHANGED error
  /\ NormalizeFrame

\* An entry object as an element of a raw array (its originalIndex property is not
\* among those normalizeEntries reads).
asRawItem(e) == ObjectWith("word", Str(e.word), "clue", Str(e.clue))

\* normalizeEntries is applied to the list it returned.
Renormalize ==
  /\ pc = "normalized"
  /\ ~isEmpty(normalizeEntries([k \in 1..Len(entries.items) |-> asRawItem(entries.items[k])]))
  /\ entries' =
       ArrayOf(normalizeEntries([k \in 1..Len(entries.items) |-> asRawItem(entries.items[k])]))
  /\ pc' = "renormalized"
  /\ UNCHANGED error
  /\ NormalizeFrame

NextNormalize ==
  \/ RejectNotArray
  \/ RejectNoValid
  \/ Normalize
  \/ Renormalize

SpecNormalize == InitNormalize /\ [][NextNormalize]_vars

\* ----------------------------------------------------------------- layouts
\* The cell that letter i (counted from 0) of placement p lies on.
RowAt(p, i) == p.row + deltaRowOf(p.direction) * i
ColAt(p, i) == p.col + deltaColOf(p.direction) * i

InGrid(g, row, col) == row >= 0 /\ col >= 0 /\ row < RowsOf(g) /\ col < ColsOf(g)
LetterAt(g, row, col) == InGrid(g, row, col) /\ At(g, row, col) # null

\* The layout createPuzzle has returned, and the layout buildCrossword holds as its
\* best so far, which is the one it returns when its loop ends.
Returned(P(_)) == result # <<>> => P(result[1])
Best(P(_)) == bestLayout # <<>> => P(bestLayout[1])

\* The numbers of numbersMap in row-major order.
NumbersInOrder(numbersMap) == SelectSeq(Flatten(numbersMap), LAMBDA n : n # noNumber)

\* ----------------------------------------------------------------- claims
EachChosenEntryOnce(layout) ==
  /\ Len(layout.placements) = requestedCount
  /\ \A a, b \in 1..Len(layout.placements) :
       a # b => layout.placements[a].entryIndex # layout.placements[b].entryIndex
  /\ \A a \in 1..Len(layout.placements) :
       /\ layout.placements[a].entryIndex \in 0..(requestedCount - 1)
       /\ layout.placements[a].word = words[layout.placements[a].entryIndex + 1].word
       /\ layout.placements[a].clue = words[layout.placements[a].entryIndex + 1].clue
       /\ \E e \in 1..Len(entries.items) :
            entries.items[e] = words[layout.placements[a].entryIndex + 1]

\* C1: every layout createPuzzle returns (and every best layout buildCrossword keeps)
\* has exactly requestedCount placements, with pairwise distinct entry indices, each
\* the word and clue of one of the requestedCount entries picked from the input; no
\* layout with fewer placements is returned.
C1_EachChosenEntryPlacedOnce ==
  /\ Returned(EachChosenEntryOnce)
  /\ Best(EachChosenEntryOnce)
  /\ result # <<>> => result[1].requestedCount = requestedCount

\* A layout was returned for a request of fewer entries than the input holds, after a
\* search that went through all of them.
C1_Witness ==
  /\ result # <<>>
  /\ Len(result[1].placements) = MIN_WORDS
  /\ Len(entries.items) > requestedCount

Spells(layout) ==
  \A k \in 1..Len(layout.placements) :
    \A i \in 0..(Len(layout.placements[k].word) - 1) :
      /\ InGrid(layout.grid, RowAt(layout.placements[k], i), ColAt(layout.placements[k], i))
      /\ At(layout.grid, RowAt(layout.placements[k], i), ColAt(layout.placements[k], i))
           = layout.placements[k].word[i + 1]

\* C2: in every returned layout the grid cells along each placement, from (row, col)
\* in its direction, hold the letters of its word in order.
C2_PlacementsSpellTheirWords == Returned(Spells)

HasOneClue(p, clues) ==
  Cardinality({m \in 1..Len(clues) : clues[m] = ClueOf(p.number, p)}) = 1

NumberedAndClued(layout) ==
  /\ \A k \in 1..Len(layout.placements) :
       /\ layout.placements[k].number # noNumber
       /\ layout.placements[k].number >= 1
       /\ InGrid(layout.grid, layout.placements[k].row, layout.placements[k].col)
       /\ At(layout.numbersMap, layout.placements[k].row, layout.placements[k].col)
            = layout.placements[k].number
       /\ HasOneClue(layout.placements[k],
                     IF layout.placements[k].direction = "across"
                     THEN layout.acrossClues ELSE layout.downClues)
  /\ Len(layout.acrossClues) + Len(layout.downClues) = Len(layout.placements)

\* C3: in every returned layout every placement has a number >= 1 that is the number
\* of numbersMap at its start cell, and exactly one clue (its number, its clue text,
\* the length of its word) in the clue list of its direction; the two clue lists
\* together have as many clues as there are placements.
C3_EveryPlacementNumberedAndClued == Returned(NumberedAndClued)

AdjacentLettersShareAPlacement(layout) ==
  \A row \in 0..(RowsOf(layout.grid) - 1), col \in 0..(ColsOf(layout.grid) - 1) :
    /\ (LetterAt(layout.grid, row, col) /\ LetterAt(layout.grid, row, col + 1))
         => \E k \in 1..Len(layout.placements) :
              /\ layout.placements[k].direction = "across"
              /\ Traverses(layout.placements[k], row, col)
              /\ Traverses(layout.placements[k], row, col + 1)
    /\ (LetterAt(layout.grid, row, col) /\ LetterAt(layout.grid, row + 1, col))
         => \E k \in 1..Len(layout.placements) :
              /\ layout.placements[k].direction = "down"
              /\ Traverses(layout.placements[k], row, col)
              /\ Traverses(layout.placements[k], row + 1, col)

\* C4: in every returned layout two letter cells next to each other in a row lie on
\* one same across placement, and two letter cells next to each other in a column lie
\* on one same down placement.
C4_AdjacentLettersShareAPlacement == Returned(AdjacentLettersShareAPlacement)

SharesCell(p, q) ==
  \E i \in 0..(Len(p.word) - 1) : Traverses(q, RowAt(p, i), ColAt(p, i))

CrossingsOnly(ps) ==
  \A a, b \in 1..Len(ps) :
    (a # b /\ SharesCell(ps[a], ps[b]))
      => /\ ps[a].direction # ps[b].direction
         /\ \A i \in 0..(Len(ps[a].word) - 1), j \in 0..(Len(ps[b].word) - 1) :
              (RowAt(ps[a], i) = RowAt(ps[b], j) /\ ColAt(ps[a], i) = ColAt(ps[b], j))
                => ps[a].word[i + 1] = ps[b].word[j + 1]

LayoutCrossingsOnly(layout) == CrossingsOnly(layout.placements)

\* C5: in every state of the search and in every returned layout, two placements that
\* share a cell run in different directions and have the same letter there: no cell
\* is traversed by two placements of the same direction.
C5_SharedCellsAreCrossings ==
  /\ CrossingsOnly(placements)
  /\ Returned(LayoutCrossingsOnly)

NumbersOnlyAtStarts(layout) ==
  /\ \A row \in 0..(RowsOf(layout.numbersMap) - 1),
        col \in 0..(ColsOf(layout.numbersMap) - 1) :
       At(layout.numbersMap, row, col) # noNumber
         => /\ LetterAt(layout.grid, row, col)
            /\ \E k \in 1..Len(layout.placements) :
                 layout.placements[k].row = row /\ layout.placements[k].col = col
  /\ NumbersInOrder(layout.numbersMap)
       = [n \in 1..Len(NumbersInOrder(layout.numbersMap)) |-> n]

\* C6: in every returned layout (and every best layout kept) numbersMap has a number
\* only at a letter cell where a placement starts, and its numbers read in row-major
\* order are 1, 2, ..., m.
C6_NumbersOnlyAtStartsInOrder ==
  /\ Returned(NumbersOnlyAtStarts)
  /\ Best(NumbersOnlyAtStarts)

\* A returned layout with at least three numbered cells, one of them the start of an
\* across and of a down placement.
C6_Witness ==
  /\ result # <<>>
  /\ Len(NumbersInOrder(result[1].numbersMap)) >= 3
  /\ \E a, b \in 1..Len(result[1].placements) :
       /\ result[1].placements[a].direction = "across"
       /\ result[1].placements[b].direction = "down"
       /\ result[1].placements[a].number # noNumber
       /\ result[1].placements[a].number = result[1].placements[b].number

CluesAscending(clues) ==
  \A m \in 1..(Len(clues) - 1) : clues[m].number < clues[m + 1].number

CluesValid(layout, clues, direction) ==
  \A m \in 1..Len(clues) :
    \E k \in 1..Len(layout.placements) :
      /\ layout.placements[k].direction = direction
      /\ InGrid(layout.numbersMap, layout.placements[k].row, layout.placements[k].col)
      /\ At(layout.numbersMap, layout.placements[k].row, layout.placements[k].col)
           = clues[m].number
      /\ clues[m].number # noNumber

CluesSortedAndValid(layout) ==
  /\ CluesAscending(layout.acrossClues)
  /\ CluesAscending(layout.downClues)
  /\ CluesValid(layout, layout.acrossClues, "across")
  /\ CluesValid(layout, layout.downClues, "down")

\* C7: in every returned layout (and every best layout kept) acrossClues and downClues
\* are strictly ascending in number, and each clue's number is the number numbersMap
\* holds at the start cell of a placement of the list's direction.
C7_CluesSortedAndValid ==
  /\ Returned(CluesSortedAndValid)
  /\ Best(CluesSortedAndValid)

\* A returned layout with at least two across clues and at least two down clues.
C7_Witness ==
  /\ result # <<>>
  /\ Len(result[1].acrossClues) >= 2
  /\ Len(result[1].downClues) >= 2

InsideTrimmedGrid(layout) ==
  \A k \in 1..Len(layout.placements) :
    /\ InGrid(layout.grid, layout.placements[k].row, layout.placements[k].col)
    /\ InGrid(layout.grid,
              RowAt(layout.placements[k], Len(layout.placements[k].word) - 1),
              ColAt(layout.placements[k], Len(layout.placements[k].word) - 1))

\* C8: in every returned layout the start cell and the end cell of every placement
\* lie inside the trimmed grid.
C8_PlacementsInsideTrimmedGrid == Returned(InsideTrimmedGrid)

MinimallyBounded(layout) ==
  /\ RowsOf(layout.grid) >= 1
  /\ ColsOf(layout.grid) >= 1
  /\ \A r \in 1..Len(layout.grid) : Len(layout.grid[r]) = ColsOf(layout.grid)
  /\ \E col \in 0..(ColsOf(layout.grid) - 1) : LetterAt(layout.grid, 0, col)
  /\ \E col \in 0..(ColsOf(layout.grid) - 1) :
       LetterAt(layout.grid, RowsOf(layout.grid) - 1, col)
  /\ \E row \in 0..(RowsOf(layout.grid) - 1) : LetterAt(layout.grid, row, 0)
  /\ \E row \in 0..(RowsOf(layout.grid) - 1) :
       LetterAt(layout.grid, row, ColsOf(layout.grid) - 1)
  /\ Len(layout.numbersMap) = Len(layout.grid)
  /\ \A r \in 1..Len(layout.numbersMap) : Len(layout.numbersMap[r]) = Len(layout.grid[r])

\* C9: every returned layout (and every best layout kept) has a rectangular grid of
\* at least 1x1 cells with a letter in its first row, its last row, its first column
\* and its last column, a numbersMap of the same dimensions, and the result's rows and
\* cols are the grid's row count and column count.
C9_GridMinimallyBounded ==
  /\ Returned(MinimallyBounded)
  /\ Best(MinimallyBounded)
  /\ result # <<>> => /\ result[1].rows = Len(result[1].grid)
                      /\ result[1].cols = Len(result[1].grid[1])

\* A returned layout whose grid is smaller than the working grid in both dimensions.
C9_Witness ==
  /\ result # <<>>
  /\ result[1].rows > 1 /\ result[1].rows < gridSize
  /\ result[1].cols > 1 /\ result[1].cols < gridSize

AtLeast085(sc) == sc.num * 20 >= 17 * sc.den

NoHighOutcome == \A o \in outcomes : o # <<>> => ~AtLeast085(scoreLayout(o[1]))

NotBelow(a, b) == a.num * b.den >= b.num * a.den

\* bestLayout is one of the layouts the attempts so far returned, bestScore is its
\* score and no such layout scores more; createPuzzle returns that layout.
BestIsMaximal ==
  /\ bestLayout = <<>> <=> (\A o \in outcomes : o = <<>>)
  /\ bestLayout # <<>> =>
        /\ bestLayout \in outcomes
        /\ bestScore = scoreLayout(bestLayout[1])
        /\ \A o \in outcomes : o # <<>> => NotBelow(bestScore, scoreLayout(o[1]))
  /\ result # <<>> =>
        /\ bestLayout # <<>>
        /\ result[1].grid = bestLayout[1].grid
        /\ result[1].placements = bestLayout[1].placements
        /\ result[1].numbersMap = bestLayout[1].numbersMap

\* A kept layout is replaced only by one that scores strictly more.
KeepsEarliest ==
  (bestLayout # <<>> /\ bestLayout' # bestLayout) =>
     bestScore'.num * bestScore.den > bestScore.num * bestScore'.den

\* C12: the layout createPuzzle returns has the greatest score among the layouts of
\* the successful attempts of the call, and among equal scores the earliest attempt's
\* layout is kept.
C12_ReturnsMaximalScore == []BestIsMaximal /\ [][KeepsEarliest]_vars

\* createPuzzle has returned the best of several scored layouts.
C12_Witness == result # <<>> /\ successCount > 1 /\ << bestLayout[1] >> \in outcomes

\* ----------------------------------------------------------------- randomness
\* Two entries of ws rank equally wherever the code orders entries: same overlap
\* total and same word length.
HasTiedEntries(ws, totals) ==
  \E i \in 1..Len(ws) : \E j \in (i + 1)..Len(ws) :
     totals[i] = totals[j] /\ Len(ws[i].word) = Len(ws[j].word)

\* All the attempts of one call so far returned the same thing (the same layout, or
\* null every time): attemptLayout draws no random value.
AttemptsIdentical == Cardinality(outcomes) <= 1

\* C13: the attempts of one call are independent, each reshuffling the order of the
\* equally ranked choices, so that they can return different things: a call that has
\* made all its attempts on a subset with equally ranked entries, one attempt at
\* least returning a layout, has seen more than one outcome (two different layouts,
\* or a layout and a failure).
C13_AttemptsDiffer ==
  (/\ pc = "loop"
   /\ attempt = maxAttempts
   /\ successCount > 0
   /\ HasTiedEntries(words, calculateOverlapTotals(Len(words), buildOverlapMatrix(words))))
  => Cardinality(outcomes) > 1

\* The subset a call on the same entries and requestedCount picks when Math.random()
\* returns 0 at every draw.
wordsOfZeroDraws ==
  pickRandomEntries(entries.items, requestedCount,
                    [i \in 1..(Len(entries.items) - 1) |-> 0])

\* Each placement carries the word that the call with all draws 0 has at the same
\* entryIndex (a placements list names the word of every index of the subset, so two
\* calls that return equal lists picked the same subset in the same order).
PlacementsOfZeroDraws(puzzle) ==
  \A k \in 1..Len(puzzle.placements) :
     puzzle.placements[k].word = wordsOfZeroDraws[puzzle.placements[k].entryIndex + 1].word

\* C14: two createPuzzle calls with the same entries, the same requestedCount and the
\* same seed option return the same placements list.  The seed option is not among
\* the values createPuzzle reads, so any two calls on the same entries and
\* requestedCount are such calls: every call returns the placements of the call whose
\* draws are all 0.
C14_SameInputsSamePlacements == Returned(PlacementsOfZeroDraws)

\* ----------------------------------------------------------------- errors
\* The errors createPuzzle and buildCrossword throw themselves (l.60, 64, 68, 136, 139).
OwnErrors ==
  {"NotLoaded", "CountBelowMinimum", "NotEnoughEntries", "Unplaceable", "NoCompactLayout"}

\* C15: the progress callback never affects the outcome of createPuzzle: whatever the
\* callback does at its invocations (it is absent, it returns, it throws), the call
\* ends as it ends without a callback, that is with a layout or with one of
\* createPuzzle's own errors, never with the callback's exception.
C15_ProgressNeverAffectsOutcome == error = "" \/ error \in OwnErrors

\* Nothing was selected, reported or attempted, and nothing returned.
NothingDone ==
  /\ words = <<>>
  /\ reports = 0
  /\ attempt = 0
  /\ outcomes = {}
  /\ result = <<>>

\* The call can only fail, and only with error e.
OnlyFailsWith(e) ==
  /\ pc \in {"start", "failed"}
  /\ pc = "failed" => error = e
  /\ NothingDone

\* C16: a call with a non-empty entries list and requestedCount < MIN_WORDS fails with
\* CountBelowMinimum, whatever the number of entries (fewer than requestedCount
\* included), before any entry is selected, any progress is reported or any layout is
\* attempted.
C16_CountBelowMinimum ==
  (entries.isArray /\ Len(entries.items) > 0 /\ requestedCount < MIN_WORDS) =>
     OnlyFailsWith("CountBelowMinimum")

\* Such a call has failed, on a list of fewer than requestedCount entries.
C16_Witness ==
  /\ pc = "failed"
  /\ error = "CountBelowMinimum"
  /\ requestedCount < MIN_WORDS
  /\ Len(entries.items) > 0
  /\ Len(entries.items) < requestedCount
  /\ NothingDone

\* C17: a call with requestedCount >= MIN_WORDS and greater than the number of
\* entries fails with NotEnoughEntries, and a call whose entries value is empty or
\* not an array fails with NotLoaded whatever requestedCount is; in both cases no
\* progress is reported and no layout is attempted.
C17_NotEnoughOrNotLoaded ==
  /\ (/\ entries.isArray
      /\ Len(entries.items) > 0
      /\ requestedCount >= MIN_WORDS
      /\ requestedCount > Len(entries.items)) => OnlyFailsWith("NotEnoughEntries")
  /\ (~entries.isArray \/ Len(entries.items) = 0) => OnlyFailsWith("NotLoaded")

\* A call with too few entries has failed.
C17_Witness ==
  /\ pc = "failed"
  /\ error = "NotEnoughEntries"
  /\ Len(entries.items) > 0
  /\ requestedCount >= MIN_WORDS
  /\ NothingDone

\* C18: createPuzzle accepts a word count only in MIN_WORDS..MAX_WORDS: it never
\* returns a layout of more than MAX_WORDS placements, and a requestedCount above
\* MAX_WORDS is not accepted even when that many entries are supplied (no entry is
\* selected and no layout is attempted for it).
C18_CountAboveMaximumRejected ==
  /\ result # <<>> => Len(result[1].placements) <= MAX_WORDS
  /\ requestedCount > MAX_WORDS =>
        /\ words = <<>>
        /\ attempt = 0
        /\ outcomes = {}
        /\ pc \notin {"loop", "initial", "search", "exit", "done"}

\* ----------------------------------------------------------------- normalised entries
\* The positions of the capital letters A-Z in the upper-cased string u.
LetterPositions(u) == {i \in 1..Len(u) : u[i] \in Letters}

\* The k-th smallest element of the set S of numbers.
KthOf(S, k) == CHOOSE i \in S : Cardinality({j \in S : j <= i}) = k

\* out is src upper-cased with every character outside A-Z deleted, the remaining
\* letters in their order.
IsStripped(u, out) ==
  /\ Len(out) = Cardinality(LetterPositions(u))
  /\ \A k \in 1..Len(out) : out[k] = u[KthOf(LetterPositions(u), k)]

\* out is src without its leading and trailing white space.
IsTrimmed(src, out) ==
  \/ out = <<>> /\ \A i \in 1..Len(src) : src[i] \in WhiteSpace
  \/ /\ out # <<>>
     /\ out[1] \notin WhiteSpace
     /\ out[Len(out)] \notin WhiteSpace
     /\ \E a \in 0..(Len(src) - Len(out)) :
          /\ SubSeq(src, a + 1, a + Len(out)) = out
          /\ \A i \in 1..Len(src) : (i <= a \/ i > a + Len(out)) => src[i] \in WhiteSpace

\* The entry e comes from the element item of the raw array.
CleanedFrom(item, e) ==
  /\ item.kind = "object"
  /\ IsStripped(toUpperCase(firstPresent(item, wordFields).text), e.word)
  /\ Len(e.word) >= 2
  /\ IsTrimmed(firstPresent(item, clueFields).text, e.clue)
  /\ Len(e.clue) > 0

\* C19: when normalizeEntries returns, every returned entry's word is the source word
\* upper-cased with every character outside A-Z deleted (the letters left in their
\* order) and has at least 2 letters, and its clue is the source clue without the
\* surrounding white space and is not empty.
C19_EntriesAreCleaned ==
  pc = "normalized" =>
     \A k \in 1..Len(entries.items) :
        /\ entries.items[k].originalIndex \in 0..(Len(raw.items) - 1)
        /\ CleanedFrom(raw.items[entries.items[k].originalIndex + 1], entries.items[k])

\* An entry was returned whose word and clue both differ from the source's.
C19_Witness ==
  /\ pc = "normalized"
  /\ \E k \in 1..Len(entries.items) :
       /\ entries.items[k].word #
            firstPresent(raw.items[entries.items[k].originalIndex + 1], wordFields).text
       /\ entries.items[k].clue #
            firstPresent(raw.items[entries.items[k].originalIndex + 1], clueFields).text

\* The element does not survive the filter: it is not an object, its word has fewer
\* than 2 letters after stripping, or its clue is empty after trimming.
Discarded(item) ==
  \/ item.kind # "object"
  \/ Cardinality(LetterPositions(toUpperCase(firstPresent(item, wordFields).text))) < 2
  \/ \A i \in 1..Len(firstPresent(item, clueFields).text) :
        firstPresent(item, clueFields).text[i] \in WhiteSpace

\* C20: normalizeEntries never returns an empty list: when no element of the raw
\* array survives the filter, the empty array included, it fails with NoValidEntries.
C20_NeverReturnsEmpty ==
  /\ pc = "normalized" => Len(entries.items) > 0
  /\ (pc # "raw" /\ raw.isArray /\ \A i \in 1..Len(raw.items) : Discarded(raw.items[i])) =>
        pc = "rejected" /\ error = "NoValidEntries"

\* normalizeEntries has failed on a raw array none of whose elements survived.
C20_Witness ==
  /\ pc = "rejected"
  /\ error = "NoValidEntries"
  /\ Len(raw.items) = MaxRaw

\* C21: normalizeEntries fails with InvalidInputShape whenever the raw value is not
\* an array of objects: when it is not an array (the error NotAnArray), or when it is
\* an array with an element that is not an object.  For the latter only the failure
\* is required here, whatever the error.
C21_InvalidShapeRejected ==
  pc # "raw" =>
     /\ ~raw.isArray => (pc = "rejected" /\ error = "NotAnArray")
     /\ (\E i \in 1..Len(raw.items) : raw.items[i].kind # "object") => pc = "rejected"

\* C22: normalizeEntries returns the surviving entries in the order of the raw input,
\* each with the position of its source element in the raw array as originalIndex:
\* every element that survives has its entry, and the originalIndex values increase
\* strictly along the returned list.
C22_OrderAndOriginalIndex ==
  pc = "normalized" =>
     /\ \A k \in 1..Len(entries.items) :
          /\ entries.items[k].originalIndex \in 0..(Len(raw.items) - 1)
          /\ ~Discarded(raw.items[entries.items[k].originalIndex + 1])
          /\ CleanedFrom(raw.items[entries.items[k].originalIndex + 1], entries.items[k])
     /\ \A k \in 1..Len(entries.items) : \A l \in (k + 1)..Len(entries.items) :
          entries.items[k].originalIndex < entries.items[l].originalIndex
     /\ {entries.items[k].originalIndex : k \in 1..Len(entries.items)} =
          {i - 1 : i \in {j \in 1..Len(raw.items) : ~Discarded(raw.items[j])}}

\* An entry was returned whose originalIndex is not its position in the returned list.
C22_Witness ==
  /\ pc = "normalized"
  /\ \E k \in 1..Len(entries.items) : entries.items[k].originalIndex # k - 1

\* The second application returns a list equal to its argument.
ReturnsItsArgument == pc' = "renormalized" => entries' = entries

\* C23: normalizeEntries is idempotent: applied to its own output it returns a list
\* equal to that output (same words, clues and originalIndex values in the same
\* order), also when the first application discarded some raw elements.
C23_Idempotent == [][ReturnsItsArgument]_vars

\* C24: the word is taken from the first present field among word, answer, solution,
\* text, entry and the clue from the first present field among clue, question,
\* prompt, hint, definition, and a value that is missing or is not a string counts as
\* the empty string, so that its element is discarded: every returned entry comes
\* from an element whose word and clue values are strings.
C24_NonStringsDiscarded ==
  pc = "normalized" =>
     \A k \in 1..Len(entries.items) :
        /\ firstPresent(raw.items[entries.items[k].originalIndex + 1], wordFields).type = "string"
        /\ firstPresent(raw.items[entries.items[k].originalIndex + 1], clueFields).type = "string"

\* C25: every entry normalizeEntries produces has a word of at least 2 and at most 12
\* letters.
C25_WordLengthBounded ==
  pc = "normalized" =>
     \A k \in 1..Len(entries.items) :
        Len(entries.items[k].word) >= 2 /\ Len(entries.items[k].word) <= 12

\* ----------------------------------------------------------------- scenario A
\* createPuzzle called without a progress callback on the five words of scenario A,
\* given in every order, with requestedCount 5.  The words reach buildCrossword in
\* every order, each once.  Every attempt of these calls places
\* all five words, so the steps of Next that belong to a failed option, a failed
\* attempt or a failed call are never taken; C26_NothingFails states that their
\* guards are false in every reachable state.
OrdersOfA ==
  { [k \in 1..Len(ListA) |-> Entry(ListA[order[k]].word, ListA[order[k]].clue, k - 1)] :
      order \in Permutations(1..Len(ListA)) }

InitScenarioA ==
  /\ pc = "start"
  /\ raw = notArray
  /\ entries \in {ArrayOf(list) : list \in OrdersOfA}
  /\ requestedCount = Len(ListA)
  /\ words = <<>>
  /\ gridSize = 0
  /\ attempt = 0
  /\ bestLayout = <<>>
  /\ bestScore = minusInfinity
  /\ successCount = 0
  /\ grid = <<>>
  /\ usage = <<>>
  /\ placements = <<>>
  /\ used = {}
  /\ overlapMatrix = <<>>
  /\ overlapTotals = <<>>
  /\ undo = <<>>
  /\ frames = <<>>
  /\ reports = 0
  /\ outcomes = {}
  /\ result = <<>>
  /\ error = ""
  /\ terminal = <<>>
  /\ app = appAtMount
  /\ channel = noMessages

\* Math.random returns 0 at every call of the shuffle.  The shuffle is then one fixed
\* rearrangement, and as the entries range over every order so do the words picked.
PickLowestDraws == PickWith({[i \in 1..(Len(entries.items) - 1) |-> 0]})

NextScenarioA ==
  \/ PickLowestDraws
  \/ BeginAttempt
  \/ PlaceInitial
  \/ Place
  \/ Complete
  \/ Return

SpecScenarioA == InitScenarioA /\ [][NextScenarioA]_vars

\* Some cell of the layout is traversed by an across and by a down placement.
HasCrossing(layout) ==
  \E a \in 1..Len(layout.placements), d \in 1..Len(layout.placements) :
     /\ layout.placements[a].direction = "across"
     /\ layout.placements[d].direction = "down"
     /\ \E i \in 0..(Len(layout.placements[d].word) - 1) :
          Traverses(layout.placements[a], layout.placements[d].row + i,
                    layout.placements[d].col)

\* Each of the five words of scenario A is the word of exactly one placement.
PlacesAllOfA(layout) ==
  /\ Len(layout.placements) = Len(ListA)
  /\ \A k \in 1..Len(ListA) :
       Cardinality({i \in 1..Len(layout.placements) :
                      layout.placements[i].word = ListA[k].word}) = 1

AllPlacedAndCrossing(layout) == PlacesAllOfA(layout) /\ HasCrossing(layout)

\* No step of a failure is enabled: the initial entry fits, the innermost call of
\* backtrackPlace always has a legal option left, and the loop ends with a layout.
C26_NothingFails ==
  /\ pc = "initial" => initialFits(initialIndex)
  /\ ~noOptionLeft
  /\ loopEnded => bestLayout # <<>>
  /\ pc \notin {"failed", "rejected", "aborted"}
  /\ validationError(entries, requestedCount) = ""

\* C26: for the entries CAT, TAR, ART, RAT, TAB in any order and requestedCount 5,
\* createPuzzle does not fail, and the layout it returns (as every layout an attempt
\* produces) places all five words and has a cell shared by an across and a down
\* placement.
C26_ScenarioAPlaced ==
  /\ C26_NothingFails
  /\ Best(AllPlacedAndCrossing)
  /\ pc = "done" => (result # <<>> /\ AllPlacedAndCrossing(result[1]))
  /\ error = ""

C26_Witness ==
  /\ pc = "done"
  /\ result # <<>>
  /\ words # ListA
  /\ AllPlacedAndCrossing(result[1])

\* ----------------------------------------------------------------- the worker
\* One run of the handler of crosswordWorker.js for one request message.  The
\* callback it hands to createPuzzle is sendProgress, so that `reports` counts the
\* progress messages posted; sendProgress posts a string and does not throw.
\* event.data carries entries of any shape (not an array when data is missing).
InitWorker ==
  /\ pc = "message"
  /\ raw = notArray
  /\ entries \in {ArrayOf(list) : list \in InputLists} \cup {notArray}
  /\ requestedCount \in ((MIN_WORDS - 1)..MaxRequested) \cup {MAX_WORDS + 1}
  /\ words = <<>>
  /\ gridSize = 0
  /\ attempt = 0
  /\ bestLayout = <<>>
  /\ bestScore = minusInfinity
  /\ successCount = 0
  /\ grid = <<>>
  /\ usage = <<>>
  /\ placements = <<>>
  /\ used = {}
  /\ overlapMatrix = <<>>
  /\ overlapTotals = <<>>
  /\ undo = <<>>
  /\ frames = <<>>
  /\ reports = 0
  /\ outcomes = {}
  /\ result = <<>>
  /\ error = ""
  /\ terminal = <<>>
  /\ app = appAtMount
  /\ channel = noMessages

\* What the handler leaves alone outside createPuzzle.
WorkerFrame ==
  UNCHANGED << app, channel, raw, entries, requestedCount, words, gridSize, attempt, bestLayout,
               bestScore, successCount, grid, usage, placements, used, overlapMatrix,
               overlapTotals, undo, frames, outcomes, result, error >>

\* onmessage: sendProgress("Preparing generator...") and the call of createPuzzle.
Receive ==
  /\ pc = "message"
  /\ reports' = reports + 1
  /\ terminal' = terminal
  /\ pc' = "start"
  /\ WorkerFrame

\* createPuzzle returned: the success message is posted and the handler ends.
PostSuccess ==
  /\ pc = "done"
  /\ terminal' = Append(terminal, "success")
  /\ pc' = "handled"
  /\ UNCHANGED reports
  /\ WorkerFrame

\* A catch block that posts nothing.
SwallowError ==
  /\ pc = "failed"
  /\ terminal' = terminal
  /\ pc' = "handled"
  /\ UNCHANGED reports
  /\ WorkerFrame

\* createPuzzle threw: the catch block posts the error message and the handler ends.
PostError ==
  /\ pc = "failed"
  /\ terminal' = Append(terminal, "error")
  /\ pc' = "handled"
  /\ UNCHANGED reports
  /\ WorkerFrame

NextWorker ==
  \/ Receive
  \/ Reject
  \/ Pick
  \/ BeginAttempt
  \/ PlaceInitial
  \/ InitialRejected
  \/ Place
  \/ Backtrack
  \/ AttemptFails
  \/ Complete
  \/ Return
  \/ Fail
  \/ PostSuccess
  \/ PostError

\* The positions of the handler, and those at which it has a statement left to run.
Positions ==
  {"message", "start", "loop", "initial", "search", "exit", "done", "failed", "handled"}

\* The handler moves on: its position or the set of entries it has placed changes, as
\* it does in every step of NextWorker.
Proceeds ==
  /\ pc # "handled"
  /\ pc' \in Positions
  /\ used' \in SUBSET (0..(Len(words) - 1))

\* The handler is one synchronous run: until it has ended it takes its next step.
SpecWorker == InitWorker /\ [][NextWorker]_vars /\ WF_<<pc, used>>(Proceeds)

\* Wherever the handler has not ended, the guard of one of the steps of NextWorker is
\* true, so that the steps the fairness condition asks for are steps of the code.
HasNextStep ==
  \/ pc = "message"
  \/ pc = "start"
  \/ pc = "loop" /\ attempt < maxAttempts
  \/ pc = "initial"
  \/ pc = "search" /\ Len(placements) = Len(words)
  \/ pc = "search" /\ Len(placements) # Len(words) /\ nextStep # 0
  \/ noOptionLeft /\ Len(frames) >= 1
  \/ loopEnded
  \/ pc = "done"
  \/ pc = "failed"

\* Every step of the handler is one the fairness condition counts.
Moves == Proceeds /\ << pc, used >>' # << pc, used >>

\* The terminal message says what createPuzzle did.
TerminalMatches ==
  /\ Len(terminal) <= 1
  /\ terminal = << "success" >> => result # <<>> /\ error = ""
  /\ terminal = << "error" >> => result = <<>> /\ error # ""

\* Once a terminal message is posted, no message is posted any more.
SilentAfterTerminal ==
  terminal # <<>> => (reports' = reports /\ terminal' = terminal)

\* C27: for every request message the worker posts progress messages followed by
\* exactly one terminal message, a success carrying the puzzle or an error carrying a
\* message; nothing is posted after the terminal message, and an exception of
\* createPuzzle always leads to the error message.
C27_OneTerminalMessage ==
  /\ []TerminalMatches
  /\ [](pc # "handled" => HasNextStep)
  /\ [][Moves]_vars
  /\ [][SilentAfterTerminal]_vars
  /\ <>(Len(terminal) = 1)
  /\ (error # "" ~> terminal = << "error" >>)
  /\ (result # <<>> ~> terminal = << "success" >>)

C27_Witness ==
  /\ terminal = << "error" >>
  /\ error = "Unplaceable"
  /\ reports > maxAttempts

Undone(applied) ==
  revertPlacement(applied.grid, applied.usage, applied.filledCells, applied.usageUpdates)

SameBoard(board, g, u) == board.grid = g /\ board.usage = u

\* The option passes canPlace on the current board.
IsLegal(o) ==
  canPlace(o.candidate.entry.word, o.option.row, o.option.col, o.option.direction,
           grid, usage)

AppliedOption(o) ==
  applyPlacement(o.candidate.entry, o.candidate.index, o.option.row, o.option.col,
                 o.option.direction, grid, usage)

\* C29: in every state of the search, applyPlacement of a legal placement followed
\* by revertPlacement restores the letter and both usage flags of every cell (so
\* that a call of backtrackPlace that returns false leaves grid and usage as they
\* were at the call).
C29_RevertRestores ==
  (pc = "search" /\ Len(placements) # Len(words)) =>
     \A k \in 1..Len(topFrame.options) :
        IsLegal(topFrame.options[k]) =>
           SameBoard(Undone(AppliedOption(topFrame.options[k])), grid, usage)

\* Some committed placement of the direction traverses the cell.
Committed(direction, row, col) ==
  \E k \in 1..Len(placements) :
     placements[k].direction = direction /\ Traverses(placements[k], row, col)

\* C30: at every point of the search, the usage flag of a direction at a cell is
\* true exactly when a committed placement of that direction traverses the cell, and
\* the cell holds a letter exactly when at least one of its two flags is true.
C30_UsageMatchesPlacements ==
  pc = "search" =>
     \A row \in 0..(gridSize - 1), col \in 0..(gridSize - 1) :
        /\ At(usage, row, col).across <=> Committed("across", row, col)
        /\ At(usage, row, col).down <=> Committed("down", row, col)
        /\ At(grid, row, col) # null <=>
              (At(usage, row, col).across \/ At(usage, row, col).down)

\* ----------------------------------------------------------------- a failing search
\* createPuzzle called without a progress callback on five short words with
\* requestedCount 5 and Math.random returning 0, so that the words reach the search
\* in the order CB, ACC, CE, DE, DED.  Every attempt backtracks and fails; the steps
\* of Next that belong to a rejected call, a rejected initial entry or a full layout
\* are never taken.
ListBacktrack ==
  << Entry(<<"D","E","D">>, "b0", 0),
     Entry(<<"C","B">>, "b1", 1),
     Entry(<<"A","C","C">>, "b2", 2),
     Entry(<<"C","E">>, "b3", 3),
     Entry(<<"D","E">>, "b4", 4) >>

InitBacktrack ==
  /\ pc = "start"
  /\ raw = notArray
  /\ entries = ArrayOf(ListBacktrack)
  /\ requestedCount = Len(ListBacktrack)
  /\ words = <<>>
  /\ gridSize = 0
  /\ attempt = 0
  /\ bestLayout = <<>>
  /\ bestScore = minusInfinity
  /\ successCount = 0
  /\ grid = <<>>
  /\ usage = <<>>
  /\ placements = <<>>
  /\ used = {}
  /\ overlapMatrix = <<>>
  /\ overlapTotals = <<>>
  /\ undo = <<>>
  /\ frames = <<>>
  /\ reports = 0
  /\ outcomes = {}
  /\ result = <<>>
  /\ error = ""
  /\ terminal = <<>>
  /\ app = appAtMount
  /\ channel = noMessages

NextBacktrack ==
  \/ PickLowestDraws
  \/ BeginAttempt
  \/ PlaceInitial
  \/ Place
  \/ Backtrack
  \/ AttemptFails
  \/ Fail

SpecBacktrack == InitBacktrack /\ [][NextBacktrack]_vars

\* The four legality rules for placing word at (row, col) in a direction on the
\* current board, the fourth read on the committed placements.
WordInsideBoard(word, row, col, direction) ==
  /\ isInsideGrid(row, col, gridSize)
  /\ isInsideGrid(row + deltaRowOf(direction) * (Len(word) - 1),
                  col + deltaColOf(direction) * (Len(word) - 1), gridSize)

EmptyIfInside(row, col) ==
  isInsideGrid(row, col, gridSize) => At(grid, row, col) = null

EndsAreFree(word, row, col, direction) ==
  /\ EmptyIfInside(row - deltaRowOf(direction), col - deltaColOf(direction))
  /\ EmptyIfInside(row + deltaRowOf(direction) * Len(word),
                   col + deltaColOf(direction) * Len(word))

PathAgrees(word, row, col, direction) ==
  \A i \in 0..(Len(word) - 1) :
     At(grid, row + deltaRowOf(direction) * i, col + deltaColOf(direction) * i)
        \in {null, word[i + 1]}

Perpendicular(direction) == IF direction = "across" THEN "down" ELSE "across"

EmptyOrPerpendicular(row, col, direction) ==
  isInsideGrid(row, col, gridSize) =>
     (At(grid, row, col) = null \/ Committed(Perpendicular(direction), row, col))

NeighboursAllowed(word, row, col, direction) ==
  \A i \in 0..(Len(word) - 1) :
     At(grid, row + deltaRowOf(direction) * i, col + deltaColOf(direction) * i) = null =>
        /\ EmptyOrPerpendicular(row + deltaRowOf(direction) * i - deltaColOf(direction),
                                col + deltaColOf(direction) * i - deltaRowOf(direction),
                                direction)
        /\ EmptyOrPerpendicular(row + deltaRowOf(direction) * i + deltaColOf(direction),
                                col + deltaColOf(direction) * i + deltaRowOf(direction),
                                direction)

FourRulesHold(word, row, col, direction) ==
  /\ WordInsideBoard(word, row, col, direction)
  /\ EndsAreFree(word, row, col, direction)
  /\ PathAgrees(word, row, col, direction)
  /\ NeighboursAllowed(word, row, col, direction)

\* C31: canPlace returns true exactly when the four legality rules hold: the word
\* lies inside the board, the cells before its start and after its end are empty
\* when inside, every path cell is empty or holds the same letter, and every
\* perpendicular neighbour of an empty path cell is empty or part of a placement
\* perpendicular to the new word.
C31_CanPlaceIffRules ==
  (pc = "search" /\ Len(placements) # Len(words)) =>
     \A k \in 1..Len(topFrame.options) :
        IsLegal(topFrame.options[k]) <=>
           FourRulesHold(topFrame.options[k].candidate.entry.word,
                         topFrame.options[k].option.row, topFrame.options[k].option.col,
                         topFrame.options[k].option.direction)

\* The cell just before the start and the cell just after the end of every placement,
\* along its direction, are off the grid or hold no letter.
SpansAreMaximal(layout) ==
  \A k \in 1..Len(layout.placements) :
     /\ ~LetterAt(layout.grid, RowAt(layout.placements[k], -1),
                  ColAt(layout.placements[k], -1))
     /\ ~LetterAt(layout.grid, RowAt(layout.placements[k], Len(layout.placements[k].word)),
                  ColAt(layout.placements[k], Len(layout.placements[k].word)))

\* C32: in every returned layout each placement's span is a maximal run of letters:
\* the cell before its start and the cell after its end, along its direction, are off
\* the grid or blocks, also when other words were placed after it.
C32_SpansAreMaximal == Returned(SpansAreMaximal) /\ Best(SpansAreMaximal)

\* The board that holds exactly the placements ps: each applied to an empty board.
RECURSIVE boardFrom(_, _, _)
boardFrom(ps, k, board) ==
  IF k > Len(ps) THEN board
  ELSE boardFrom(ps, k + 1,
                 applyPlacement([word |-> ps[k].word, clue |-> ps[k].clue], ps[k].entryIndex,
                                ps[k].row, ps[k].col, ps[k].direction,
                                board.grid, board.usage))

boardOf(ps, size) ==
  boardFrom(ps, 1, [grid |-> createEmptyGrid(size), usage |-> createUsageGrid(size)])

entryIndexes(ps) == {ps[k].entryIndex : k \in 1..Len(ps)}

\* Some sequence of legal options, each placing an unplaced entry across a letter
\* coincidence with a committed placement, extends the placements ps to a full
\* layout; options are those generatePlacementOptions emits for ps, and board is
\* the board of ps.
RECURSIVE ExtendsToFull(_, _, _, _), Continues(_, _)
ExtendsToFull(ps, options, board, size) ==
  \/ Len(ps) = Len(words)
  \/ \E k \in 1..Len(options) :
        /\ canPlace(options[k].candidate.entry.word, options[k].option.row,
                    options[k].option.col, options[k].option.direction,
                    board.grid, board.usage)
        /\ Continues(Append(ps, applyPlacement(options[k].candidate.entry,
                                               options[k].candidate.index,
                                               options[k].option.row, options[k].option.col,
                                               options[k].option.direction,
                                               board.grid, board.usage).placement),
                     size)

Continues(ps, size) ==
  ExtendsToFull(ps, frameOptions(words, ps, entryIndexes(ps), overlapMatrix, overlapTotals),
                boardOf(ps, size), size)

\* C33: backtrackPlace returns false from a state only when no sequence of legal
\* options, each placing an unplaced entry across a letter coincidence with an
\* already committed placement, extends that state to a full layout.
C33_FalseOnlyWhenNoLayout ==
  noOptionLeft => ~Continues(placements, gridSize)

\* The letter coincidences of a word with a committed placement: pairs of positions
\* (in the word, in the placement) holding the same letter.
Coincidences(word, p) ==
  {ab \in (0..(Len(word) - 1)) \X (0..(Len(p.word) - 1)) : word[ab[1] + 1] = p.word[ab[2] + 1]}

\* The option is perpendicular to p and puts letter candPos of the word on the cell
\* of letter pPos of p.
CrossesAt(option, p, candPos, pPos) ==
  /\ option.direction = Perpendicular(p.direction)
  /\ option.row + deltaRowOf(option.direction) * candPos = RowAt(p, pPos)
  /\ option.col + deltaColOf(option.direction) * candPos = ColAt(p, pPos)
  /\ option = IF p.direction = "across"
              THEN [row |-> p.row - candPos, col |-> p.col + pPos, direction |-> "down"]
              ELSE [row |-> p.row + pPos, col |-> p.col - candPos, direction |-> "across"]

\* What the claim asks of the options emitted for the word of entry index against ps.
OptionsAsSpecified(options, word, ps) ==
  /\ \A k \in 1..Len(ps) : \A ab \in Coincidences(word, ps[k]) :
        \E m \in 1..Len(options) : CrossesAt(options[m], ps[k], ab[1], ab[2])
  /\ \A m \in 1..Len(options) :
        \E k \in 1..Len(ps) : \E ab \in Coincidences(word, ps[k]) :
           CrossesAt(options[m], ps[k], ab[1], ab[2])
  /\ \A m, n \in 1..Len(options) : options[m] = options[n] => m = n

OptionsOf(index) ==
  generatePlacementOptions([index |-> index, entry |-> words[index + 1]], placements,
                           overlapMatrix)

\* C34: for a candidate and the committed placements, generatePlacementOptions emits
\* for every committed placement p and every letter coincidence an option
\* perpendicular to p that puts the candidate's letter on the cell of p's letter,
\* nothing else, and no option twice.
C34_OptionsPerCoincidence ==
  pc = "search" =>
     \A index \in (0..(Len(words) - 1)) \ used :
        OptionsAsSpecified(OptionsOf(index), words[index + 1].word, placements)

\* Two coincidences give the same option, which is emitted once.
C34_Witness ==
  /\ pc = "search"
  /\ \E index \in (0..(Len(words) - 1)) \ used :
        /\ OptionsAsSpecified(OptionsOf(index), words[index + 1].word, placements)
        /\ \E k, m \in 1..Len(placements) :
              /\ k # m
              /\ \E ab \in Coincidences(words[index + 1].word, placements[k]),
                    cd \in Coincidences(words[index + 1].word, placements[m]) :
                    \E n \in 1..Len(OptionsOf(index)) :
                       /\ CrossesAt(OptionsOf(index)[n], placements[k], ab[1], ab[2])
                       /\ CrossesAt(OptionsOf(index)[n], placements[m], cd[1], cd[2])

\* ----------------------------------------------------------------- termination
\* The positions at which a call of createPuzzle has ended: returned, thrown its own
\* error, or left by an exception of the callback.
Ended == {"done", "failed", "aborted"}

\* createPuzzle moves on: its position or the set of entries it has placed changes.
Advances ==
  /\ pc \notin Ended
  /\ pc' \in Positions \cup Ended
  /\ used' \in SUBSET (0..(Len(words) - 1))

\* createPuzzle is one synchronous run: until it has ended it takes its next step.
SpecTerminates == Init /\ [][Next]_vars /\ WF_<<pc, used>>(Advances)

\* The recursion is as deep as there are committed placements, at most one call per
\* entry, and every call has finitely many options of which it has tried a prefix.
DepthBounded ==
  pc = "search" =>
     /\ Len(frames) = Len(placements)
     /\ Len(frames) <= Len(words)
     /\ Cardinality(used) = Len(placements)
     /\ \A k \in 1..Len(frames) :
           frames[k].position \in 0..Len(frames[k].options)

\* A step of the search that stays in the search either recurses, with one more
\* committed placement and the caller's loops advanced, or returns to the caller.
SearchDescends ==
  (pc = "search" /\ pc' = "search") =>
     \/ /\ Len(frames') = Len(frames) + 1
        /\ Len(placements') = Len(placements) + 1
        /\ frames'[Len(frames)].position > frames[Len(frames)].position
        /\ \A k \in 1..(Len(frames) - 1) : frames'[k] = frames[k]
     \/ /\ Len(frames') = Len(frames) - 1
        /\ Len(placements') = Len(placements) - 1
        /\ \A k \in 1..Len(frames') : frames'[k] = frames[k]

\* How a call that has ended has ended.
EndedWithOutcome ==
  /\ pc = "done" => result # <<>> /\ error = ""
  /\ pc \in {"failed", "aborted"} => result = <<>> /\ error # ""

\* C35: every layout attempt terminates: the recursion of backtrackPlace is at most
\* as deep as there are entries, every call iterates over finitely many options and
\* recurses with one more committed placement, every attempt ends, and createPuzzle
\* ends with a layout or an error.
C35_Terminates ==
  /\ []DepthBounded
  /\ [][SearchDescends]_vars
  /\ [](pc \notin Ended => HasNextStep)
  /\ [][<< pc, used >>' # << pc, used >>]_vars
  /\ []EndedWithOutcome
  /\ (pc \in {"initial", "search"} ~> pc \in {"loop", "exit"} \cup Ended)
  /\ <>(pc \in Ended)

\* In the last attempt a call has returned false to its caller, whose loops carry on
\* behind the option it had tried.
C35_Witness ==
  /\ pc = "search"
  /\ attempt = maxAttempts - 1
  /\ topFrame.position > 0
  /\ Len(placements) # Len(words)

\* ----------------------------------------------------------------- the initial entry
MaxWordLen(ws) == GreatestOf({Len(ws[k].word) : k \in 1..Len(ws)} \cup {0})

\* The overlap total of the entry at index i, from the words alone: the number of
\* letter coincidences with every other entry.
OverlapTotalOf(ws, i) ==
  Cardinality({jab \in (1..Len(ws)) \X (1..Len(ws[i].word)) \X (1..MaxWordLen(ws)) :
                 /\ jab[1] # i
                 /\ jab[3] <= Len(ws[jab[1]].word)
                 /\ ws[i].word[jab[2]] = ws[jab[1]].word[jab[3]]})

\* Entry i comes before entry j as the start: greater total, then longer word, then
\* lower index.
StartsBefore(ws, i, j) ==
  \/ OverlapTotalOf(ws, i) > OverlapTotalOf(ws, j)
  \/ /\ OverlapTotalOf(ws, i) = OverlapTotalOf(ws, j)
     /\ \/ Len(ws[i].word) > Len(ws[j].word)
        \/ Len(ws[i].word) = Len(ws[j].word) /\ i < j

\* The first placement of an attempt as the claim describes it.
IsSpecifiedStart(p, ws, side) ==
  /\ p.entryIndex + 1 \in 1..Len(ws)
  /\ \A j \in (1..Len(ws)) \ {p.entryIndex + 1} : StartsBefore(ws, p.entryIndex + 1, j)
  /\ p.word = ws[p.entryIndex + 1].word
  /\ p.direction = "across"
  /\ p.row = side \div 2
  /\ p.col = (IF side >= Len(p.word) THEN (side - Len(p.word)) \div 2 ELSE 0)

\* The entry the claim makes the start of the attempt.
SpecifiedStart(ws) ==
  CHOOSE i \in 1..Len(ws) : \A j \in (1..Len(ws)) \ {i} : StartsBefore(ws, i, j)

\* attemptLayout's step from the choice of the initial entry.
StartsAsSpecified ==
  pc = "initial" =>
     /\ pc' = "search" =>
           /\ Len(placements') = 1
           /\ IsSpecifiedStart(placements'[1], words, gridSize)
           /\ used' = {placements'[1].entryIndex}
           /\ Len(words[SpecifiedStart(words)].word) <= gridSize
     /\ Len(words[SpecifiedStart(words)].word) > gridSize =>
           /\ pc' = "loop"
           /\ placements' = <<>>
           /\ attempt' = attempt + 1
           /\ bestLayout' = bestLayout
           /\ successCount' = successCount

\* C36: each attempt starts from the entry with the greatest overlap total, ties
\* broken by the longer word and then by the lower index, committed across at row
\* floor(side / 2), col max(0, floor((side - |word|) / 2)) as the first placement; if
\* the word is longer than the board side the attempt fails with nothing placed.
C36_InitialEntry == [][StartsAsSpecified]_vars

\* The start was chosen by its length: an entry before it has the same total and a
\* shorter word.
C36_Witness ==
  /\ pc = "search"
  /\ Len(placements) = 1
  /\ IsSpecifiedStart(placements[1], words, gridSize)
  /\ \E j \in 1..placements[1].entryIndex :
        /\ OverlapTotalOf(words, j) = OverlapTotalOf(words, placements[1].entryIndex + 1)
        /\ Len(words[j].word) < Len(placements[1].word)

\* ----------------------------------------------------------------- the board side
MaxLetters == 13   \* the words of a measured subset have at most MaxLetters letters
MaxExtra == 3      \* and its last word up to MaxExtra letters more

\* A subset of count words of the given length, the last one longer by extra.
SubsetOf(count, length, extra) ==
  [i \in 1..count |->
     Entry([k \in 1..(IF i = count THEN length + extra ELSE length) |-> "A"], "clue", i - 1)]

\* determineGridSize is about to be called with a subset of MIN_WORDS..MAX_WORDS
\* entries, as createPuzzle's validation leaves it.
InitGridSize ==
  /\ pc = "measure"
  /\ raw = notArray
  /\ entries = notArray
  /\ requestedCount = 0
  /\ words \in {SubsetOf(count, length, extra) :
                  count \in MIN_WORDS..MAX_WORDS, length \in 1..MaxLetters,
                  extra \in 0..MaxExtra}
  /\ gridSize = 0
  /\ attempt = 0
  /\ bestLayout = <<>>
  /\ bestScore = minusInfinity
  /\ successCount = 0
  /\ grid = <<>>
  /\ usage = <<>>
  /\ placements = <<>>
  /\ used = {}
  /\ overlapMatrix = <<>>
  /\ overlapTotals = <<>>
  /\ undo = <<>>
  /\ frames = <<>>
  /\ reports = 0
  /\ outcomes = {}
  /\ result = <<>>
  /\ error = ""
  /\ terminal = <<>>
  /\ app = appAtMount
  /\ channel = noMessages

Measure ==
  /\ pc = "measure"
  /\ gridSize' = determineGridSize(words)
  /\ pc' = "measured"
  /\ UNCHANGED << app, channel, raw, terminal, outcomes, entries, requestedCount, words, attempt,
                  bestLayout, bestScore, successCount, grid, usage, placements, used,
                  overlapMatrix, overlapTotals, undo, frames, reports, result, error >>

NextGridSize == Measure

SpecGridSize == InitGridSize /\ [][NextGridSize]_vars

\* The total letter count of a subset, counted letter by letter.
LettersOf(ws) ==
  Cardinality({ik \in (1..Len(ws)) \X (1..(MaxLetters + MaxExtra + 1)) :
                 ik[2] <= Len(ws[ik[1]].word)})

\* side is the least integer whose square is at least twice the letter count, clamped
\* to MIN_GRID_SIZE..MAX_GRID_SIZE.
IsClampedSide(side, letters) ==
  /\ side \in MIN_GRID_SIZE..MAX_GRID_SIZE
  /\ side > MIN_GRID_SIZE => (side - 1) * (side - 1) < 2 * letters
  /\ side < MAX_GRID_SIZE => side * side >= 2 * letters

\* C37: for a subset with total letter count L the board side is the least integer s
\* with s * s >= 2 * L, clamped to 10..25, hence always between 10 and 25.
C37_BoardSide ==
  pc = "measured" =>
     /\ IsClampedSide(gridSize, LettersOf(words))
     /\ gridSize >= 10
     /\ gridSize <= 25

\* A side strictly inside the range where twice the letter count is not a square.
C37_Witness ==
  /\ pc = "measured"
  /\ IsClampedSide(gridSize, LettersOf(words))
  /\ gridSize = 18
  /\ gridSize * gridSize > 2 * LettersOf(words)

\* ----------------------------------------------------------------- the score
\* The cells of the layout that belong to exactly one across and one down placement.
TrueCrossings(layout) ==
  {rc \in (0..(RowsOf(layout.grid) - 1)) \X (0..(ColsOf(layout.grid) - 1)) :
     /\ Cardinality({k \in 1..Len(layout.placements) :
                       /\ layout.placements[k].direction = "across"
                       /\ Traverses(layout.placements[k], rc[1], rc[2])}) = 1
     /\ Cardinality({k \in 1..Len(layout.placements) :
                       /\ layout.placements[k].direction = "down"
                       /\ Traverses(layout.placements[k], rc[1], rc[2])}) = 1}

\* filled cells / total cells + 0.02 * crossings, as a fraction.
ScoreWith(layout, crossings) ==
  [num |-> 50 * Cardinality({rc \in (1..RowsOf(layout.grid)) \X (1..ColsOf(layout.grid)) :
                                layout.grid[rc[1]][rc[2]] # null})
             + crossings * RowsOf(layout.grid) * ColsOf(layout.grid),
   den |-> 50 * RowsOf(layout.grid) * ColsOf(layout.grid)]

SameScore(a, b) == a.num * b.den = b.num * a.den

ScoredByTrueCrossings(layout) ==
  SameScore(scoreLayout(layout), ScoreWith(layout, Cardinality(TrueCrossings(layout))))

\* C38: the score of a layout is its filled cells over the cells of the trimmed grid
\* plus 0.02 times the number of cells that belong to exactly one across and one down
\* placement; the best score buildCrossword holds is that score of its best layout.
C38_ScoreCountsCrossings ==
  /\ Best(ScoredByTrueCrossings)
  /\ bestLayout # <<>> => SameScore(bestScore, scoreLayout(bestLayout[1]))

\* ----------------------------------------------------------------- the App
MaxGenerations == 2   \* Generate is clicked at most MaxGenerations times
MaxFiles == 2         \* at most MaxFiles files are chosen
MaxProgress == 1      \* createPuzzle posts at most MaxProgress progress messages

\* A file: whether JSON.parse succeeds on its text, and the value it yields.
FileOf(list) ==
  [parses |-> TRUE,
   value |-> ArrayOf([k \in 1..Len(list) |->
                        ObjectWith("word", Str(list[k].word), "clue", Str(<< "c" >>))])]

Files ==
  { FileOf(ListA), FileOf(ListB), FileOf(ListFew),
    [parses |-> TRUE, value |-> notArray],
    [parses |-> FALSE, value |-> notArray] }

\* Whether the try block of handleFileChange runs to its end: JSON.parse and
\* normalizeEntries do not throw.
loads(file) ==
  /\ file.parses
  /\ file.value.isArray
  /\ ~isEmpty(normalizeEntries(file.value.items))

\* The effect on sliderMax: wordCount is kept between MIN_WORDS and sliderMax.
sliderMax(es) == IF Len(es) >= MIN_WORDS THEN Min(MAX_WORDS, Len(es)) ELSE MAX_WORDS
clamped(wordCount, es) == Min(Max(wordCount, MIN_WORDS), sliderMax(es))

\* The message handleGenerate posts.
requestOf(es, wordCount) == [entries |-> es, wordCount |-> wordCount]

InitApp ==
  /\ pc = "mounted"
  /\ raw = notArray
  /\ entries = notArray
  /\ requestedCount = 0
  /\ words = <<>>
  /\ gridSize = 0
  /\ attempt = 0
  /\ bestLayout = <<>>
  /\ bestScore = minusInfinity
  /\ successCount = 0
  /\ grid = <<>>
  /\ usage = <<>>
  /\ placements = <<>>
  /\ used = {}
  /\ overlapMatrix = <<>>
  /\ overlapTotals = <<>>
  /\ undo = <<>>
  /\ frames = <<>>
  /\ reports = 0
  /\ outcomes = {}
  /\ result = <<>>
  /\ error = ""
  /\ terminal = <<>>
  /\ app = appAtMount
  /\ channel = noMessages

AppFrame ==
  UNCHANGED << pc, raw, entries, requestedCount, words, gridSize, attempt, bestLayout,
               bestScore, successCount, grid, usage, placements, used, overlapMatrix,
               overlapTotals, undo, frames, reports, outcomes, result, error, terminal >>

\* handleFileChange up to its await: the input, shown while no entries are loaded,
\* has a file chosen, whose text is read.
ChooseFile ==
  /\ app.mounted
  /\ Len(app.entries) = 0
  /\ app.chosen < MaxFiles
  /\ \E file \in Files :
        app' = [app EXCEPT !.reading = Append(@, file), !.chosen = @ + 1]
  /\ UNCHANGED channel
  /\ AppFrame

\* handleFileChange after its await, for any of the files being read.
FileRead ==
  /\ app.mounted
  /\ \E k \in 1..Len(app.reading) :
        LET file == app.reading[k]
            loaded == IF loads(file) THEN normalizeEntries(file.value.items) ELSE <<>>
        IN app' = [app EXCEPT
                     !.reading = SubSeq(@, 1, k - 1) \o SubSeq(@, k + 1, Len(@)),
                     !.entries = loaded,
                     !.puzzle = <<>>,
                     !.statusError = ~loads(file),
                     !.wordCount = clamped(@, loaded)]
  /\ UNCHANGED channel
  /\ AppFrame

\* handleGenerate, behind its button (enabled when enough entries are loaded and no
\* generation is under way).
Generate ==
  /\ app.mounted
  /\ Len(app.entries) >= MIN_WORDS
  /\ ~app.isGenerating
  /\ app.generated < MaxGenerations
  /\ app' = [app EXCEPT !.isGenerating = TRUE,
                        !.statusError = FALSE,
                        !.generationSteps = << "Starting puzzle generation" >>,
                        !.generated = @ + 1]
  /\ channel' = [channel EXCEPT
                   !.requests = Append(@, requestOf(app.entries, app.wordCount))]
  /\ AppFrame

\* handleResetAll, behind its buttons (shown while entries are loaded).
Reset ==
  /\ app.mounted
  /\ Len(app.entries) > 0
  /\ app' = [app EXCEPT !.entries = <<>>,
                        !.puzzle = <<>>,
                        !.statusError = FALSE,
                        !.wordCount = clamped(@, <<>>)]
  /\ UNCHANGED channel
  /\ AppFrame

\* The worker's handler begins with the next request: sendProgress("Preparing
\* generator...") and the call of createPuzzle.
WorkerReceives ==
  /\ channel.handling = <<>>
  /\ channel.requests # <<>>
  /\ channel' = [channel EXCEPT
                   !.requests = Tail(@),
                   !.handling = << Head(channel.requests) >>,
                   !.progress = 0,
                   !.messages = Append(@, [type |-> "progress",
                                           message |-> "Preparing generator",
                                           puzzle |-> <<>>])]
  /\ UNCHANGED app
  /\ AppFrame

\* createPuzzle reports an attempt.
WorkerReports ==
  /\ channel.handling # <<>>
  /\ channel.progress < MaxProgress
  /\ validationError(ArrayOf(channel.handling[1].entries), channel.handling[1].wordCount) = ""
  /\ channel' = [channel EXCEPT
                   !.progress = @ + 1,
                   !.messages = Append(@, [type |-> "progress",
                                           message |-> "Layout attempt",
                                           puzzle |-> <<>>])]
  /\ UNCHANGED app
  /\ AppFrame

\* createPuzzle returns a puzzle made of the entries of the request.
WorkerSucceeds ==
  /\ channel.handling # <<>>
  /\ validationError(ArrayOf(channel.handling[1].entries), channel.handling[1].wordCount) = ""
  /\ channel' = [channel EXCEPT
                   !.handling = <<>>,
                   !.messages =
                      Append(@, [type |-> "success",
                                 message |-> "",
                                 puzzle |-> << [generatedFrom |-> channel.handling[1].entries,
                                                requestedCount |->
                                                   channel.handling[1].wordCount] >>])]
  /\ UNCHANGED app
  /\ AppFrame

\* createPuzzle throws: its arguments are invalid, or no attempt gave a layout.
WorkerFails ==
  /\ channel.handling # <<>>
  /\ channel' = [channel EXCEPT
                   !.handling = <<>>,
                   !.messages = Append(@, [type |-> "error",
                                           message |-> "Unable to generate crossword.",
                                           puzzle |-> <<>>])]
  /\ UNCHANGED app
  /\ AppFrame

\* The state worker.onmessage leaves for a message.
afterMessage(state, m) ==
  IF m.type = "progress" /\ m.message # ""
  THEN [state EXCEPT !.generationSteps =
                        IF @ # <<>> /\ @[Len(@)] = m.message THEN @ ELSE << m.message >>]
  ELSE IF m.type = "success" /\ m.puzzle # <<>>
       THEN [state EXCEPT !.isGenerating = FALSE, !.generationSteps = <<>>,
                          !.puzzle = m.puzzle, !.statusError = FALSE]
       ELSE [state EXCEPT !.isGenerating = FALSE, !.generationSteps = <<>>,
                          !.statusError = TRUE]

\* worker.onmessage is called with the oldest message of the worker.
Deliver ==
  /\ app.mounted
  /\ channel.messages # <<>>
  /\ app' = afterMessage(app, Head(channel.messages))
  /\ channel' = [channel EXCEPT !.messages = Tail(@)]
  /\ AppFrame

\* The cleanup of the mount effect: worker.terminate().
Unmount ==
  /\ app.mounted
  /\ app' = [app EXCEPT !.mounted = FALSE]
  /\ channel' = noMessages
  /\ AppFrame

NextApp ==
  \/ ChooseFile
  \/ FileRead
  \/ Generate
  \/ Reset
  \/ WorkerReceives
  \/ WorkerReports
  \/ WorkerSucceeds
  \/ WorkerFails
  \/ Deliver
  \/ Unmount

SpecApp == InitApp /\ [][NextApp]_vars

\* C39: under every interleaving of Generate, Reset, file upload and worker
\* messages, the puzzle the App holds while a list is loaded was generated from that
\* list, and once the worker is discarded nothing of its generation is left.
C39_PuzzleFromLoadedEntries ==
  /\ (app.puzzle # <<>> /\ app.entries # <<>>) =>
        app.puzzle[1].generatedFrom = app.entries
  /\ ~app.mounted => channel = noMessages

====
